---- MODULE Spec2Model ----
(***************************************************************************)
(* Verifiable email aliases (email-alias-core): generateEmailAlias,        *)
(* validateEmailAlias and the crypto capability they use.                  *)
(*                                                                         *)
(* A JavaScript string is a sequence of characters; a character is a       *)
(* one-character TLA+ string, except the line feed "\n", the grave accent *)
(* "U+0060" and the letter e-acute "U+00E9".  A byte is a number in        *)
(* 0..255 and a 32-bit word is a pair <<hi, lo>> of 16-bit halves.         *)
(***************************************************************************)
EXTENDS Integers, Sequences, FiniteSets, TLC

(***************************************************************************)
(* Text encoding: new TextEncoder().encode(s)                              *)
(***************************************************************************)
AsciiPrintable ==
  <<
     " ", "!", "\"", "#", "$", "%", "&", "'", "(", ")", "*", "+", ",", "-", ".", "/",
     "0", "1", "2", "3", "4", "5", "6", "7", "8", "9", ":", ";", "<", "=", ">", "?",
     "@", "A", "B", "C", "D", "E", "F", "G", "H", "I", "J", "K", "L", "M", "N", "O",
     "P", "Q", "R", "S", "T", "U", "V", "W", "X", "Y", "Z", "[", "\\", "]", "^", "_",
     "U+0060", "a", "b", "c", "d", "e", "f", "g", "h", "i", "j", "k", "l", "m", "n", "o",
     "p", "q", "r", "s", "t", "u", "v", "w", "x", "y", "z", "{", "|", "}", "~"
  >>

AsciiChars == {AsciiPrintable[i] : i \in 1..Len(AsciiPrintable)}

AsciiCode == [c \in AsciiChars |-> 31 + (CHOOSE i \in 1..Len(AsciiPrintable) : AsciiPrintable[i] = c)]

\* A character is one UTF-16 code unit of a JavaScript string: a printable
\* ASCII character written as itself, a tab, line feed, form feed or carriage
\* return written with its escape, and any other by its name, "U+" and the
\* four hex digits of the code unit.
UpperHexDigits ==
  <<"0", "1", "2", "3", "4", "5", "6", "7", "8", "9", "A", "B", "C", "D", "E", "F">>

CharName(n) ==
  "U+" \o UpperHexDigits[(n \div 4096) + 1] \o UpperHexDigits[((n \div 256) % 16) + 1]
       \o UpperHexDigits[((n \div 16) % 16) + 1] \o UpperHexDigits[(n % 16) + 1]

\* The code units of the named characters that the inputs below hold: a name
\* is looked up among them before it is searched among all code units.
InputCodeUnits == {233, 8232, 8233}

CodeUnit(c) ==
  IF c \in AsciiChars THEN AsciiCode[c]
  ELSE IF c = "\t" THEN 9
  ELSE IF c = "\n" THEN 10
  ELSE IF c = "\f" THEN 12
  ELSE IF c = "\r" THEN 13
  ELSE IF \E n \in InputCodeUnits : CharName(n) = c
    THEN CHOOSE n \in InputCodeUnits : CharName(n) = c
  ELSE CHOOSE n \in 0..65535 : CharName(n) = c

IsHighSurrogate(n) == n >= 55296 /\ n <= 56319

IsLowSurrogate(n) == n >= 56320 /\ n <= 57343

\* The UTF-8 bytes of a code point; a surrogate, which is no code point, is
\* encoded as U+FFFD.
Utf8(n) ==
  IF n < 128 THEN <<n>>
  ELSE IF n < 2048 THEN <<192 + (n \div 64), 128 + (n % 64)>>
  ELSE IF IsHighSurrogate(n) \/ IsLowSurrogate(n) THEN <<239, 191, 189>>
  ELSE IF n < 65536 THEN <<224 + (n \div 4096), 128 + ((n \div 64) % 64), 128 + (n % 64)>>
  ELSE <<240 + (n \div 262144), 128 + ((n \div 4096) % 64), 128 + ((n \div 64) % 64),
         128 + (n % 64)>>

\* The UTF-8 encoding of one character that stands alone.
Utf8Char(c) == Utf8(CodeUnit(c))

\* encode(s): a high surrogate followed by a low one is one code point, every
\* other code unit is encoded alone.
RECURSIVE TextEncode(_)
TextEncode(s) ==
  IF s = <<>> THEN <<>>
  ELSE IF Len(s) >= 2 /\ IsHighSurrogate(CodeUnit(s[1])) /\ IsLowSurrogate(CodeUnit(s[2]))
    THEN Utf8(65536 + (CodeUnit(s[1]) - 55296) * 1024 + (CodeUnit(s[2]) - 56320))
           \o TextEncode(Tail(Tail(s)))
  ELSE Utf8Char(Head(s)) \o TextEncode(Tail(s))

(***************************************************************************)
(* _bufferToHex: every byte as two lowercase hex digits                    *)
(***************************************************************************)
HexDigits == <<"0", "1", "2", "3", "4", "5", "6", "7", "8", "9", "a", "b", "c", "d", "e", "f">>

ByteToHex(b) == <<HexDigits[(b \div 16) + 1], HexDigits[(b % 16) + 1]>>

RECURSIVE _bufferToHex(_)
_bufferToHex(buffer) ==
  IF buffer = <<>> THEN <<>> ELSE ByteToHex(Head(buffer)) \o _bufferToHex(Tail(buffer))

(***************************************************************************)
(* HMAC-SHA-256, the primitive behind crypto.subtle.importKey and          *)
(* crypto.subtle.sign (FIPS 180-4, RFC 2104)                               *)
(***************************************************************************)
Bit(a, i) == (a \div (2 ^ i)) % 2

Xor4(a, b) ==
  ((Bit(a, 0) + Bit(b, 0)) % 2) + 2 * ((Bit(a, 1) + Bit(b, 1)) % 2)
  + 4 * ((Bit(a, 2) + Bit(b, 2)) % 2) + 8 * ((Bit(a, 3) + Bit(b, 3)) % 2)

And4(a, b) ==
  (Bit(a, 0) * Bit(b, 0)) + 2 * (Bit(a, 1) * Bit(b, 1))
  + 4 * (Bit(a, 2) * Bit(b, 2)) + 8 * (Bit(a, 3) * Bit(b, 3))

XorTab == [a \in 0..15 |-> [b \in 0..15 |-> Xor4(a, b)]]

AndTab == [a \in 0..15 |-> [b \in 0..15 |-> And4(a, b)]]

Xor16(a, b) ==
  XorTab[a \div 4096][b \div 4096] * 4096
  + XorTab[(a \div 256) % 16][(b \div 256) % 16] * 256
  + XorTab[(a \div 16) % 16][(b \div 16) % 16] * 16
  + XorTab[a % 16][b % 16]

And16(a, b) ==
  AndTab[a \div 4096][b \div 4096] * 4096
  + AndTab[(a \div 256) % 16][(b \div 256) % 16] * 256
  + AndTab[(a \div 16) % 16][(b \div 16) % 16] * 16
  + AndTab[a % 16][b % 16]

\* The element of a one-element set. A value bound through a set is computed
\* once, however often the expression it is bound in refers to it.
Only(S) == CHOOSE v \in S : TRUE

\* 32-bit words are pairs <<high, low>> of 16-bit halves.
WXor(x, y) == Only({<<Xor16(a[1], b[1]), Xor16(a[2], b[2])>> : a \in {x}, b \in {y}})

WXor3(x, y, z) == WXor(WXor(x, y), z)

WAnd(x, y) == Only({<<And16(a[1], b[1]), And16(a[2], b[2])>> : a \in {x}, b \in {y}})

WNot(x) == Only({<<65535 - a[1], 65535 - a[2]>> : a \in {x}})

WAdd(x, y) ==
  Only({<<(a[1] + b[1] + ((a[2] + b[2]) \div 65536)) % 65536, (a[2] + b[2]) % 65536>> :
          a \in {x}, b \in {y}})

\* Rotate right by n < 16.
RotRSmall(x, n) ==
  Only({<<(a[1] \div m) + (a[2] % m) * (65536 \div m), (a[2] \div m) + (a[1] % m) * (65536 \div m)>> :
          a \in {x}, m \in {2 ^ n}})

RotR(x, n) ==
  Only({IF n >= 16 THEN RotRSmall(<<a[2], a[1]>>, n - 16) ELSE RotRSmall(a, n) : a \in {x}})

\* Shift right by n < 16.
ShR(x, n) ==
  Only({<<a[1] \div m, (a[2] \div m) + (a[1] % m) * (65536 \div m)>> : a \in {x}, m \in {2 ^ n}})

Sha256K ==
  <<
     <<17034, 12184>>, <<28983, 17553>>, <<46528, 64463>>, <<59829, 56229>>,
     <<14678, 49755>>, <<23025, 4593>>, <<37439, 33444>>, <<43804, 24277>>,
     <<55303, 43672>>, <<4739, 23297>>, <<9265, 34238>>, <<21772, 32195>>,
     <<29374, 23924>>, <<32990, 45566>>, <<39900, 1703>>, <<49563, 61812>>,
     <<58523, 27073>>, <<61374, 18310>>, <<4033, 40390>>, <<9228, 41420>>,
     <<11753, 11375>>, <<19060, 33962>>, <<23728, 43484>>, <<30457, 35034>>,
     <<38974, 20818>>, <<43057, 50797>>, <<45059, 10184>>, <<48985, 32711>>,
     <<50912, 3059>>, <<54695, 37191>>, <<1738, 25425>>, <<5161, 10599>>,
     <<10167, 2693>>, <<11803, 8504>>, <<19756, 28156>>, <<21304, 3347>>,
     <<25866, 29524>>, <<30314, 2747>>, <<33218, 51502>>, <<37490, 11397>>,
     <<41663, 59553>>, <<43034, 26187>>, <<49739, 35696>>, <<51052, 20899>>,
     <<53650, 59417>>, <<54937, 1572>>, <<62478, 13701>>, <<4202, 41072>>,
     <<6564, 49430>>, <<7735, 27656>>, <<10056, 30540>>, <<13488, 48309>>,
     <<14620, 3251>>, <<20184, 43594>>, <<23452, 51791>>, <<26670, 28659>>,
     <<29839, 33518>>, <<30885, 25455>>, <<33992, 30740>>, <<36039, 520>>,
     <<37054, 65530>>, <<42064, 27883>>, <<48889, 41975>>, <<50801, 30962>>
  >>

Sha256H0 ==
  <<
     <<27145, 58983>>, <<47975, 44677>>, <<15470, 62322>>, <<42319, 62778>>,
     <<20750, 21119>>, <<39685, 26764>>, <<8067, 55723>>, <<23520, 52505>>
  >>

BigSigma0(x) == Only({WXor3(RotR(a, 2), RotR(a, 13), RotR(a, 22)) : a \in {x}})

BigSigma1(x) == Only({WXor3(RotR(a, 6), RotR(a, 11), RotR(a, 25)) : a \in {x}})

SmallSigma0(x) == Only({WXor3(RotR(a, 7), RotR(a, 18), ShR(a, 3)) : a \in {x}})

SmallSigma1(x) == Only({WXor3(RotR(a, 17), RotR(a, 19), ShR(a, 10)) : a \in {x}})

Ch(x, y, z) == Only({WXor(WAnd(a, b), WAnd(WNot(a), c)) : a \in {x}, b \in {y}, c \in {z}})

Maj(x, y, z) ==
  Only({WXor3(WAnd(a, b), WAnd(a, c), WAnd(b, c)) : a \in {x}, b \in {y}, c \in {z}})

\* The 16 big-endian words of a 64-byte block.
BlockWords(block) ==
  Only({<<>> \o [t \in 1..16 |-> <<b[4 * t - 3] * 256 + b[4 * t - 2], b[4 * t - 1] * 256 + b[4 * t]>>] :
          b \in {block}})

\* The word t = Len(w) + 1 of the message schedule.
ScheduleWord(w) ==
  WAdd(WAdd(SmallSigma1(w[Len(w) - 1]), w[Len(w) - 6]),
       WAdd(SmallSigma0(w[Len(w) - 14]), w[Len(w) - 15]))

\* w with the next n words of the message schedule, halving n to keep the
\* evaluation shallow.
RECURSIVE Extend(_, _)
Extend(w, n) ==
  IF n = 0 THEN w
  ELSE IF n = 1 THEN Append(w, ScheduleWord(w))
  ELSE Only({Extend(m, n - (n \div 2)) : m \in {Extend(w, n \div 2)}})

Schedule(w) == Extend(w, 64 - Len(w))

\* One round on the working variables s = <<a, b, c, d, e, f, g, h>>.
Round(s, wt, kt) ==
  Only({<<WAdd(t1, t2), s[1], s[2], s[3], WAdd(s[4], t1), s[5], s[6], s[7]>> :
          t1 \in {WAdd(WAdd(WAdd(s[8], BigSigma1(s[5])), WAdd(Ch(s[5], s[6], s[7]), kt)), wt)},
          t2 \in {WAdd(BigSigma0(s[1]), Maj(s[1], s[2], s[3]))}})

\* The rounds from..to on s, halving the range to keep the evaluation shallow.
RECURSIVE Rounds(_, _, _, _)
Rounds(s, w, from, to) ==
  IF from = to THEN Round(s, w[from], Sha256K[from])
  ELSE Only({Rounds(m, w, ((from + to) \div 2) + 1, to) :
               m \in {Rounds(s, w, from, (from + to) \div 2)}})

Compress(h, block) ==
  Only({<<WAdd(h[1], s[1]), WAdd(h[2], s[2]), WAdd(h[3], s[3]), WAdd(h[4], s[4]),
          WAdd(h[5], s[5]), WAdd(h[6], s[6]), WAdd(h[7], s[7]), WAdd(h[8], s[8])>> :
          s \in {Rounds(h, w, 1, 64) : w \in {Schedule(BlockWords(block))}}})

Zeros(n) == [i \in 1..n |-> 0]

\* The message, 0x80, zero fill and the 64-bit big-endian bit length.
Sha256Pad(msg) ==
  Only({m \o <<128>> \o Zeros((119 - (Len(m) % 64)) % 64) \o <<0, 0, 0, 0>>
        \o <<(8 * Len(m)) \div 16777216, ((8 * Len(m)) \div 65536) % 256,
             ((8 * Len(m)) \div 256) % 256, (8 * Len(m)) % 256>> :
          m \in {msg}})

RECURSIVE Sha256Blocks(_, _)
Sha256Blocks(h, padded) ==
  IF padded = <<>> THEN h
  ELSE Only({Sha256Blocks(n, rest) :
               n \in {Compress(h, SubSeq(padded, 1, 64))},
               rest \in {SubSeq(padded, 65, Len(padded))}})

WordBytes(x) == <<x[1] \div 256, x[1] % 256, x[2] \div 256, x[2] % 256>>

Sha256(msg) ==
  Only({WordBytes(h[1]) \o WordBytes(h[2]) \o WordBytes(h[3]) \o WordBytes(h[4])
        \o WordBytes(h[5]) \o WordBytes(h[6]) \o WordBytes(h[7]) \o WordBytes(h[8]) :
          h \in {Sha256Blocks(Sha256H0, p) : p \in {Sha256Pad(msg)}}})

\* The key of an HMAC, hashed when longer than a block and zero-filled to 64 bytes.
HmacKey(keyBytes) ==
  Only({k \o Zeros(64 - Len(k)) :
          k \in {IF Len(b) > 64 THEN Sha256(b) ELSE b : b \in {keyBytes}}})

XorPad(kp, c) == <<>> \o [i \in 1..64 |-> Xor16(kp[i], c)]

HmacSha256(keyBytes, dataBytes) ==
  Only({Sha256(XorPad(kp, 92) \o Sha256(XorPad(kp, 54) \o d)) :
          kp \in {HmacKey(keyBytes)}, d \in {dataBytes}})

(***************************************************************************)
(* JavaScript values and string helpers                                    *)
(***************************************************************************)
JsString(s) == [type |-> "string", str |-> s, num |-> 0]

JsNumber(n) == [type |-> "number", str |-> <<>>, num |-> n]

JsUndefined == [type |-> "undefined", str |-> <<>>, num |-> 0]

JsNull == [type |-> "null", str |-> <<>>, num |-> 0]

\* ToBoolean(v), as in !v: of the numbers, 0 and NaN are falsy.  A number that
\* is not an integer carries its name in str, and only NaN of them is falsy.
Truthy(v) ==
  CASE v.type = "string" -> v.str # <<>>
    [] v.type = "number" -> IF v.str = <<>> THEN v.num # 0 ELSE v.str # <<"N", "a", "N">>
    [] OTHER -> FALSE

\* A hashLength argument: omitted, or a number.
Omitted == [given |-> FALSE, n |-> 0]

Given(n) == [given |-> TRUE, n |-> n]

\* An aliasParts argument: missing, or an array of JavaScript values.
Missing == [given |-> FALSE, items |-> <<>>]

Array(items) == [given |-> TRUE, items |-> items]

Min(a, b) == IF a < b THEN a ELSE b

Max(a, b) == IF a > b THEN a ELSE b

\* String.prototype.substring(start, end): both indexes are clamped to
\* 0..length and swapped when start > end.
Substring(s, start, end) ==
  LET lo == Min(start, end)
      hi == Max(start, end)
  IN  IF hi <= 0 THEN <<>>
      ELSE IF Max(lo, 0) >= Min(hi, Len(s)) THEN <<>>
      ELSE SubSeq(s, Max(lo, 0) + 1, Min(hi, Len(s)))

\* Uint8Array.prototype.slice(start, end) for 0 <= start <= end
Slice(bytes, start, end) ==
  IF start >= Min(end, Len(bytes)) THEN <<>> ELSE SubSeq(bytes, start + 1, Min(end, Len(bytes)))

\* JoinParts with no separator between the parts.
RECURSIVE JoinPartsPlain(_)
JoinPartsPlain(items) ==
  IF items = <<>> THEN <<>> ELSE items[1].str \o JoinPartsPlain(Tail(items))

\* Array.prototype.join("-") on an array of strings
RECURSIVE JoinParts(_)
JoinParts(items) ==
  IF items = <<>> THEN <<>>
  ELSE IF Len(items) = 1 THEN items[1].str
  ELSE items[1].str \o <<"-">> \o JoinParts(Tail(items))

(***************************************************************************)
(* The crypto capability of the environment, getCrypto                     *)
(*                                                                         *)
(* env.self, env.globalThis and env.window say what the crypto property of *)
(* that global is: "usable" (subtle and getRandomValues), "noSubtle",      *)
(* "noGetRandomValues" or "absent".  env.node says what require gives:     *)
(* "webcrypto" (node:crypto with a usable webcrypto), "noWebcrypto"        *)
(* (node:crypto loads, its webcrypto is unusable), "legacy" (node:crypto   *)
(* throws, crypto has a usable webcrypto), "legacyNoWebcrypto" (node:crypto*)
(* throws, crypto has no usable webcrypto), "noModule" (both throw) or     *)
(* "absent" (no global or no require).                                     *)
(***************************************************************************)
CryptoUnavailable == "Crypto API not available in this environment"

WebCryptoUnavailable == "Web Crypto API not available. Node.js 16+ required."

Found(source) == [ok |-> TRUE, source |-> source, error |-> ""]

NotFound(message) == [ok |-> FALSE, source |-> "", error |-> message]

getCrypto(env) ==
  IF env.self = "usable" THEN Found("self")
  ELSE IF env.globalThis = "usable" THEN Found("globalThis")
  ELSE IF env.window = "usable" THEN Found("window")
  ELSE IF env.node = "webcrypto" THEN Found("node:crypto")
  ELSE IF env.node = "legacy" THEN Found("crypto")
  ELSE IF env.node = "legacyNoWebcrypto" THEN NotFound(WebCryptoUnavailable)
  ELSE NotFound(CryptoUnavailable)

\* The module-level cache behind the exported crypto object: NoInstance
\* (null) or the source getCrypto returned.
VARIABLE _cryptoInstance

NoInstance == "null"

\* getCryptoInstance reading the cache of the crypto object and nothing else.
getCryptoInstanceFromCache(env) ==
  IF _cryptoInstance = NoInstance
    THEN NotFound("TypeError: Cannot read properties of null (reading 'subtle')")
    ELSE Found(_cryptoInstance)

getCryptoInstance(env) == getCrypto(env)

\* The sources getCrypto looks at, in the order of its statements.
Sources == <<"self", "globalThis", "window", "node:crypto", "crypto">>

CryptoStates == {"usable", "noSubtle", "noGetRandomValues", "absent"}

NodeStates == {"webcrypto", "noWebcrypto", "legacy", "legacyNoWebcrypto", "noModule", "absent"}

AllEnvironments ==
  [self : CryptoStates, globalThis : CryptoStates, window : CryptoStates, node : NodeStates]

Returns == [kind |-> "return", error |-> ""]

GoesOn == [kind |-> "next", error |-> ""]

Throws(message) == [kind |-> "throw", error |-> message]

\* Probe taking every crypto object that is there, with or without subtle
\* and getRandomValues.
ProbeIfPresent(env, source) ==
  CASE source = "self" -> IF env.self # "absent" THEN Returns ELSE GoesOn
    [] source = "globalThis" -> IF env.globalThis # "absent" THEN Returns ELSE GoesOn
    [] source = "window" -> IF env.window # "absent" THEN Returns ELSE GoesOn
    [] source = "node:crypto" ->
         IF env.node \in {"webcrypto", "noWebcrypto"} THEN Returns
         ELSE IF env.node = "absent" THEN Throws(CryptoUnavailable)
         ELSE GoesOn
    [] source = "crypto" ->
         IF env.node \in {"legacy", "legacyNoWebcrypto"} THEN Returns
         ELSE Throws(CryptoUnavailable)

\* What the statement of getCrypto that looks at a source does: it returns
\* that source's crypto, goes on to the next statement, or throws.
Probe(env, source) ==
  CASE source = "self" -> IF env.self = "usable" THEN Returns ELSE GoesOn
    [] source = "globalThis" -> IF env.globalThis = "usable" THEN Returns ELSE GoesOn
    [] source = "window" -> IF env.window = "usable" THEN Returns ELSE GoesOn
    [] source = "node:crypto" ->
         IF env.node = "webcrypto" THEN Returns
         ELSE IF env.node \in {"absent", "noWebcrypto"} THEN Throws(CryptoUnavailable)
         ELSE GoesOn
    [] source = "crypto" ->
         IF env.node = "legacy" THEN Returns
         ELSE IF env.node = "legacyNoWebcrypto" THEN Throws(WebCryptoUnavailable)
         ELSE Throws(CryptoUnavailable)

(***************************************************************************)
(* The inputs the calls are made with                                      *)
(***************************************************************************)
MaxShortHash == 3

MaxTamperPos == 4

MaxReplacements == 3

KeyAB == <<"a", "b">>

KeyAC == <<"a", "c">>

KeyE == <<"U+00E9">>

SecretKeys == {KeyAB, KeyAC, KeyE, <<>>}

PartsP == Array(<<JsString(<<"p">>)>>)

PartsAB == Array(<<JsString(<<"a">>), JsString(<<"b">>)>>)

PartsEmptyString == Array(<<JsString(<<>>)>>)

AliasPartsInputs ==
  {PartsP, PartsAB, PartsEmptyString, Array(<<>>), Missing,
   Array(<<JsString(<<"p">>), JsNumber(42)>>)}

DomainD == <<"d">>

\* A domain that itself holds "-", two hex digits and "@".
DomainWithSegment == <<"q", "-", "6", "1", "@", "d">>

DomainWithLineFeed == <<"d", "\n">>

Domains == {DomainD, <<>>, DomainWithSegment, DomainWithLineFeed}

\* The hex of a SHA-256 signature has 64 characters, the key hint 2.
HashLengths == (0..MaxShortHash) \cup {64 + 2, 64 + 3}

HashLengthArgs == {Omitted} \cup {Given(n) : n \in HashLengths}

R1 == JsString(<<"r", "1">>)

R2 == JsString(<<"r", "2">>)

Entry(key, recipient) == [key |-> key, recipient |-> recipient]

KeysRecipientMaps ==
  {<<Entry(k, R1)>> : k \in SecretKeys}
  \cup {<<>>, <<Entry(KeyAB, R1), Entry(KeyAC, R2)>>, <<Entry(KeyAC, R2), Entry(KeyAB, R1)>>,
        <<Entry(KeyAB, JsNumber(7))>>, <<Entry(KeyAB, JsNumber(7)), Entry(KeyAC, R2)>>}

LiteralAliases ==
  {JsNull, JsUndefined, JsNumber(5), JsString(<<>>), JsString(<<"p">>),
   JsString(<<"a", "@", "b">>), JsString(<<"p", "-", "6", "1">>),
   JsString(<<"p", "-", "6", "1", "@">>), JsString(<<"p", "-", "6", "1", "@", "d">>),
   JsString(<<"-", "6", "1", "@", "d">>), JsString(<<"p", "-", "6", "1", "@", "d", "\n">>),
   JsString(<<"p", "-", "6", "1", "@", "d", "@", "e">>), JsString(<<"p", "-", "6", "A", "@", "d">>),
   JsString(<<"p", "-", "6", "1", "@", "q", "-", "6", "2", "@", "d">>)}

ReplacementDigits == {HexDigits[i] : i \in 1..MaxReplacements}

JoinedPrefixes ==
  {JoinParts(p.items) : p \in {q \in AliasPartsInputs : \A i \in 1..Len(q.items) : q.items[i].type = "string"}}

WorkerEnv == [self |-> "usable", globalThis |-> "usable", window |-> "absent", node |-> "absent"]

NodeEnv == [self |-> "absent", globalThis |-> "absent", window |-> "absent", node |-> "webcrypto"]

NoCryptoEnv == [self |-> "noSubtle", globalThis |-> "noSubtle", window |-> "absent", node |-> "absent"]

Environments == {WorkerEnv, NodeEnv, NoCryptoEnv}

(***************************************************************************)
(* _getHmacSignature(secretKey, data)                                      *)
(***************************************************************************)
ZeroLengthKey == "DataError: Zero-length key is not supported"

\* The error _getHmacSignature ends with, "" when it ends with a signature:
\* getCryptoInstance throws without a crypto capability, and importKey
\* rejects raw HMAC key data of length zero.
_getHmacSignatureError(env, secretKey) ==
  IF ~getCryptoInstance(env).ok THEN getCryptoInstance(env).error
  ELSE IF TextEncode(secretKey) = <<>> THEN ZeroLengthKey
  ELSE ""

\* The signatures the model's inputs need, computed once.
\* The verified test vectors.
VectorBasic ==
  [secretKey |-> <<"t", "e", "s", "t", "-", "s", "e", "c", "r", "e", "t", "-", "k", "e",
                "y", "-", "1", "2", "3">>,
   aliasParts |-> Array(<<JsString(<<"s", "e", "r", "v", "i", "c", "e">>),
                          JsString(<<"p", "r", "o", "v", "i", "d", "e", "r">>)>>),
   domain |-> <<"e", "x", "a", "m", "p", "l", "e", ".", "c", "o", "m">>,
   hashLength |-> Given(8),
   expectedAlias |->
     <<"s", "e", "r", "v", "i", "c", "e", "-", "p", "r", "o", "v", "i", "d", "e", "r",
     "-", "7", "4", "e", "4", "2", "3", "d", "7", "@", "e", "x", "a", "m", "p", "l",
     "e", ".", "c", "o", "m">>]

VectorMultiPart ==
  [secretKey |-> <<"a", "n", "o", "t", "h", "e", "r", "-", "k", "e", "y", "-", "4", "5",
                "6">>,
   aliasParts |-> Array(<<JsString(<<"s", "h", "o", "p">>),
                          JsString(<<"a", "m", "a", "z", "o", "n">>),
                          JsString(<<"e", "l", "e", "c", "t", "r", "o", "n", "i", "c",
                                   "s">>)>>),
   domain |-> <<"t", "e", "s", "t", ".", "c", "o", "m">>,
   hashLength |-> Given(12),
   expectedAlias |->
     <<"s", "h", "o", "p", "-", "a", "m", "a", "z", "o", "n", "-", "e", "l", "e", "c",
     "t", "r", "o", "n", "i", "c", "s", "-", "6", "1", "5", "c", "8", "d", "a", "6",
     "0", "c", "8", "d", "@", "t", "e", "s", "t", ".", "c", "o", "m">>]

VectorShortHash ==
  [secretKey |-> <<"s", "h", "o", "r", "t", "-", "h", "a", "s", "h", "-", "k", "e", "y">>,
   aliasParts |-> Array(<<JsString(<<"n", "e", "w", "s">>),
                          JsString(<<"t", "e", "c", "h">>)>>),
   domain |-> <<"n", "e", "w", "s", "l", "e", "t", "t", "e", "r", ".", "c", "o", "m">>,
   hashLength |-> Given(6),
   expectedAlias |->
     <<"n", "e", "w", "s", "-", "t", "e", "c", "h", "-", "7", "3", "e", "2", "6", "c",
     "@", "n", "e", "w", "s", "l", "e", "t", "t", "e", "r", ".", "c", "o", "m">>]

VectorLongHash ==
  [secretKey |-> <<"l", "o", "n", "g", "-", "h", "a", "s", "h", "-", "k", "e", "y", "-",
                "f", "o", "r", "-", "t", "e", "s", "t", "i", "n", "g">>,
   aliasParts |-> Array(<<JsString(<<"s", "o", "c", "i", "a", "l">>),
                          JsString(<<"m", "e", "d", "i", "a">>)>>),
   domain |-> <<"s", "o", "c", "i", "a", "l", ".", "n", "e", "t">>,
   hashLength |-> Given(16),
   expectedAlias |->
     <<"s", "o", "c", "i", "a", "l", "-", "m", "e", "d", "i", "a", "-", "6", "c", "c",
     "7", "d", "f", "9", "4", "b", "e", "5", "9", "d", "d", "1", "7", "@", "s", "o",
     "c", "i", "a", "l", ".", "n", "e", "t">>]

VectorSpecialChars ==
  [secretKey |-> <<"s", "p", "e", "c", "i", "a", "l", "-", "c", "h", "a", "r", "s", "-",
                "k", "e", "y">>,
   aliasParts |-> Array(<<JsString(<<"t", "e", "s", "t", "-", "1", "2", "3">>),
                          JsString(<<"s", "e", "r", "v", "i", "c", "e", "_", "n",
                                     "a", "m", "e">>),
                          JsString(<<"w", "i", "t", "h", ".", "d", "o", "t", "s">>)>>),
   domain |-> <<"s", "p", "e", "c", "i", "a", "l", ".", "e", "x", "a", "m", "p", "l",
             "e", ".", "o", "r", "g">>,
   hashLength |-> Given(10),
   expectedAlias |->
     <<"t", "e", "s", "t", "-", "1", "2", "3", "-", "s", "e", "r", "v", "i", "c", "e",
     "_", "n", "a", "m", "e", "-", "w", "i", "t", "h", ".", "d", "o", "t", "s", "-",
     "7", "3", "0", "3", "2", "9", "e", "4", "3", "d", "@", "s", "p", "e", "c", "i",
     "a", "l", ".", "e", "x", "a", "m", "p", "l", "e", ".", "o", "r", "g">>]

TestVectors ==
  {VectorBasic, VectorMultiPart, VectorShortHash, VectorLongHash, VectorSpecialChars}

HmacKnown ==
  [km \in {<<k, m>> : k \in SecretKeys \ {<<>>}, m \in JoinedPrefixes}
          \cup {<<v.secretKey, JoinParts(v.aliasParts.items)>> : v \in TestVectors} |->
     HmacSha256(TextEncode(km[1]), TextEncode(km[2]))]

\* The bytes of the signature, when there is no error.
_getHmacSignature(secretKey, data) ==
  IF <<secretKey, data>> \in DOMAIN HmacKnown THEN HmacKnown[<<secretKey, data>>]
  ELSE HmacSha256(TextEncode(secretKey), TextEncode(data))

(***************************************************************************)
(* generateEmailAlias                                                      *)
(***************************************************************************)
DefaultHashLength == 8

\* HashLengthOf with the argument ignored.
HashLengthIgnored(arg) == DefaultHashLength

HashLengthOf(arg) == IF arg.given THEN arg.n ELSE DefaultHashLength

Return(value, calls) == [kind |-> "return", value |-> value, error |-> "", hmacCalls |-> calls]

Throw(message, calls) == [kind |-> "throw", value |-> JsUndefined, error |-> message, hmacCalls |-> calls]

\* The two messages of generateEmailAlias.  The code writes aliasParts between
\* grave accents; U+0060 names that character, which cannot be written in a
\* string here.
EmptyAliasParts == "The U+0060aliasPartsU+0060 array cannot be empty."

NonStringAliasParts == "All elements in U+0060aliasPartsU+0060 must be strings."

\* AliasPartsError without the check of the elements.
AliasPartsErrorEmptyOnly(aliasParts) ==
  IF ~aliasParts.given \/ Len(aliasParts.items) = 0 THEN EmptyAliasParts ELSE ""

\* The error the checks of aliasParts end with, "" when they pass.
AliasPartsError(aliasParts) ==
  IF ~aliasParts.given \/ Len(aliasParts.items) = 0 THEN EmptyAliasParts
  ELSE IF \E i \in 1..Len(aliasParts.items) : aliasParts.items[i].type # "string"
    THEN NonStringAliasParts
  ELSE ""

\* KeyHintOf from the first UTF-16 code unit instead of the first UTF-8 byte.
KeyHintOfCharCode(secretKey) ==
  IF secretKey = <<>> THEN <<>>
  ELSE IF Head(secretKey) = "U+00E9" THEN ByteToHex(233)
  ELSE ByteToHex(Utf8Char(Head(secretKey))[1])

\* The first byte of the key as two hex characters.
KeyHintOf(secretKey) == Substring(_bufferToHex(Slice(TextEncode(secretKey), 0, 1)), 0, 2)

\* FinalHash without the key hint.
FinalHashWithoutHint(keyHint, truncatedHash) == truncatedHash

FinalHash(keyHint, truncatedHash) == keyHint \o truncatedHash

generateEmailAlias(env, secretKey, aliasParts, domain, hashLengthArg) ==
  LET hashLength == HashLengthOf(hashLengthArg)
      localPartPrefix == JoinParts(aliasParts.items)
      failure == _getHmacSignatureError(env, secretKey)
      fullHash == _bufferToHex(_getHmacSignature(secretKey, localPartPrefix))
      keyHint == KeyHintOf(secretKey)
      truncatedHash == Substring(fullHash, 0, hashLength - 2)
      finalHash == FinalHash(keyHint, truncatedHash)
  IN  IF AliasPartsError(aliasParts) # "" THEN Throw(AliasPartsError(aliasParts), 0)
      ELSE IF failure # "" THEN Throw(failure, 1)
      ELSE Return(JsString(localPartPrefix \o <<"-">> \o finalHash \o <<"@">> \o domain), 1)

(***************************************************************************)
(* validateEmailAlias                                                      *)
(***************************************************************************)
IsHexDigit(c) == \E i \in 1..16 : HexDigits[i] = c

\* What "." of the regular expression does not match.
IsLineTerminator(c) == c \in {"\n", "\r", "U+2028", "U+2029"}

\* "-", hashLength hex digits and "@" start at index i, and something follows.
\* The decimal digits of a natural number, as String(n) writes them.
RECURSIVE Decimal(_)
Decimal(n) ==
  IF n < 10 THEN <<HexDigits[n + 1]>> ELSE Decimal(n \div 10) \o <<HexDigits[(n % 10) + 1]>>

\* What follows the first hex digit of ([a-f0-9]{hashLength}) as literal text:
\* with a negative hashLength "{-n}" is no quantifier, and the pattern is one
\* hex digit followed by the characters "{", "-", the digits of n and "}".
SegmentLiteral(hashLength) ==
  IF hashLength < 0 THEN <<"{", "-">> \o Decimal(0 - hashLength) \o <<"}">> ELSE <<>>

\* The number of characters ([a-f0-9]{hashLength}) takes.
SegmentWidth(hashLength) ==
  IF hashLength < 0 THEN 1 + Len(SegmentLiteral(hashLength)) ELSE hashLength

\* "-", the segment and "@" stand at index i of s, and a character follows.
SegmentAt(s, hashLength, i) ==
  /\ i + SegmentWidth(hashLength) + 2 <= Len(s)
  /\ s[i] = "-"
  /\ IF hashLength < 0
       THEN /\ IsHexDigit(s[i + 1])
            /\ SubSeq(s, i + 2, i + SegmentWidth(hashLength)) = SegmentLiteral(hashLength)
       ELSE \A j \in 1..hashLength : IsHexDigit(s[i + j])
  /\ s[i + SegmentWidth(hashLength) + 1] = "@"

NoMatch == [matched |-> FALSE, prefix |-> <<>>, hash |-> <<>>, domain |-> <<>>]

\* MatchAlias with a lazy (.*?): the first place where the segment fits.
MatchAliasLazy(s, hashLength) ==
  LET places == {i \in 1..Len(s) : SegmentAt(s, hashLength, i)}
      i == CHOOSE p \in places : \A q \in places : q >= p
  IN  IF places = {} \/ (\E j \in 1..Len(s) : IsLineTerminator(s[j])) THEN NoMatch
      ELSE [matched |-> TRUE,
            prefix |-> SubSeq(s, 1, i - 1),
            hash |-> SubSeq(s, i + 1, i + SegmentWidth(hashLength)),
            domain |-> SubSeq(s, i + SegmentWidth(hashLength) + 2, Len(s))]

\* MatchAlias with ([^@]+) for the domain: the one place where the segment fits
\* and no "@" follows its own.
MatchAliasOneAt(s, hashLength) ==
  LET places == {i \in 1..Len(s) :
                   /\ SegmentAt(s, hashLength, i)
                   /\ \A j \in (i + SegmentWidth(hashLength) + 2)..Len(s) : s[j] # "@"}
      i == CHOOSE p \in places : TRUE
  IN  IF places = {} \/ (\E j \in 1..Len(s) : IsLineTerminator(s[j])) THEN NoMatch
      ELSE [matched |-> TRUE,
            prefix |-> SubSeq(s, 1, i - 1),
            hash |-> SubSeq(s, i + 1, i + SegmentWidth(hashLength)),
            domain |-> SubSeq(s, i + SegmentWidth(hashLength) + 2, Len(s))]

\* fullAlias.match(/^(.*)-([a-f0-9]{hashLength})@(.+)$/): the greedy (.*)
\* takes the last place where the segment fits.
MatchAlias(s, hashLength) ==
  LET places == {i \in 1..Len(s) : SegmentAt(s, hashLength, i)}
      i == CHOOSE p \in places : \A q \in places : q <= p
  IN  IF places = {} \/ (\E j \in 1..Len(s) : IsLineTerminator(s[j])) THEN NoMatch
      ELSE [matched |-> TRUE,
            prefix |-> SubSeq(s, 1, i - 1),
            hash |-> SubSeq(s, i + 1, i + SegmentWidth(hashLength)),
            domain |-> SubSeq(s, i + SegmentWidth(hashLength) + 2, Len(s))]

\* keysRecipientMap is the sequence of its entries [key, recipient] in the
\* order Object.keys enumerates them; no key occurs twice.
ObjectKeys(map) == [i \in 1..Len(map) |-> map[i].key]

Lookup(map, key) == map[CHOOSE i \in 1..Len(map) : map[i].key = key].recipient

\* KeyFirstByte as the first two characters of the key itself.
KeyFirstTwoChars(key) == Substring(key, 0, 2)

\* The hint of a key of the map: its first byte as two hex characters.
KeyFirstByte(key) == Substring(_bufferToHex(Slice(TextEncode(key), 0, 1)), 0, 2)

\* Object.keys(keysRecipientMap).filter(...): the keys with the hint, in order.
\* FilterKeys keeping every key.
FilterKeysKeepAll(keys, keyHint) == keys

RECURSIVE FilterKeys(_, _)
FilterKeys(keys, keyHint) ==
  IF keys = <<>> THEN <<>>
  ELSE IF KeyFirstByte(Head(keys)) = keyHint
    THEN <<Head(keys)>> \o FilterKeys(Tail(keys), keyHint)
  ELSE FilterKeys(Tail(keys), keyHint)

\* CandidateKeys without the filter on the hint.
CandidateKeysUnfiltered(keysRecipientMap, keyHint) == ObjectKeys(keysRecipientMap)

CandidateKeys(keysRecipientMap, keyHint) == FilterKeys(ObjectKeys(keysRecipientMap), keyHint)

\* HashMatches comparing the lengths only.
\* The comparison refusing an empty hash.
HashMatchesNonEmpty(expectedHash, actualHash) ==
  expectedHash = actualHash /\ expectedHash # <<>>

HashMatchesLength(expectedHash, actualHash) == Len(expectedHash) = Len(actualHash)

HashMatches(expectedHash, actualHash) == expectedHash = actualHash

\* The loop over the candidate keys; calls counts the signatures asked for.
RECURSIVE TestCandidates(_, _, _, _, _, _, _)
TestCandidates(env, keysRecipientMap, candidateKeys, localPartPrefix, actualHash, hashLength, calls) ==
  IF candidateKeys = <<>> THEN Return(JsString(<<>>), calls)
  ELSE LET secretKey == Head(candidateKeys)
           failure == _getHmacSignatureError(env, secretKey)
           fullHash == _bufferToHex(_getHmacSignature(secretKey, localPartPrefix))
           expectedHash == Substring(fullHash, 0, hashLength - 2)
           recipient == Lookup(keysRecipientMap, secretKey)
       IN  IF failure # "" THEN Throw(failure, calls + 1)
           ELSE IF HashMatches(expectedHash, actualHash)
             THEN IF recipient.type = "string" THEN Return(recipient, calls + 1)
                  ELSE Return(JsString(<<>>), calls + 1)
           ELSE TestCandidates(env, keysRecipientMap, Tail(candidateKeys), localPartPrefix,
                               actualHash, hashLength, calls + 1)

validateEmailAlias(env, keysRecipientMap, fullAlias, hashLengthArg) ==
  LET hashLength == HashLengthOf(hashLengthArg)
      match == MatchAlias(fullAlias.str, hashLength)
      localPartPrefix == match.prefix
      providedHash == match.hash
      keyHint == Substring(providedHash, 0, 2)
      actualHash == Substring(providedHash, 2, Len(providedHash))
      candidateKeys == CandidateKeys(keysRecipientMap, keyHint)
  IN  IF ~Truthy(fullAlias) \/ fullAlias.type # "string" THEN Return(JsString(<<>>), 0)
      ELSE IF ~match.matched THEN Return(JsString(<<>>), 0)
      ELSE IF localPartPrefix = <<>> \/ providedHash = <<>> THEN Return(JsString(<<>>), 0)
      ELSE TestCandidates(env, keysRecipientMap, candidateKeys, localPartPrefix, actualHash,
                          hashLength, 0)

(***************************************************************************)
(* A call of generateEmailAlias or validateEmailAlias under way.  The      *)
(* functions are async: a call runs from its start to its first await, and *)
(* from one await to the next, as one step; the awaits are those of        *)
(* _getHmacSignature, on importKey and on sign.  pc is where the call      *)
(* waits, calls the number of times it has called getCryptoInstance.       *)
(***************************************************************************)
NoOutcome == [kind |-> "none", value |-> JsUndefined, error |-> "", hmacCalls |-> 0]

NoKey == <<"no key">>

Frame(fn, secretKey, aliasParts, domain, keysRecipientMap, fullAlias, hashLengthArg) ==
  [fn |-> fn, secretKey |-> secretKey, aliasParts |-> aliasParts, domain |-> domain,
   keysRecipientMap |-> keysRecipientMap, fullAlias |-> fullAlias,
   hashLengthArg |-> hashLengthArg, origin |-> "none", pc |-> "called",
   candidateKeys |-> <<>>,
   key |-> NoKey, data |-> <<>>, cryptoKey |-> NoKey, calls |-> 0, outcome |-> NoOutcome]

Settled(frame, outcome) == [frame EXCEPT !.pc = "done", !.outcome = outcome]

\* _getHmacSignature up to its first await: getCryptoInstance, the encoder, and
\* the call of importKey.
EnterHmac(environment, frame, secretKey, data) ==
  IF ~getCryptoInstance(environment).ok
    THEN Settled(frame, Throw(getCryptoInstance(environment).error, frame.calls + 1))
  ELSE [frame EXCEPT !.pc = "importKey", !.key = secretKey, !.data = data,
                     !.calls = frame.calls + 1]

\* The head of validateEmailAlias's loop.
NextCandidate(environment, frame, candidateKeys) ==
  IF candidateKeys = <<>> THEN Settled(frame, Return(JsString(<<>>), frame.calls))
  ELSE EnterHmac(environment, [frame EXCEPT !.candidateKeys = candidateKeys],
                 Head(candidateKeys),
                 MatchAlias(frame.fullAlias.str, HashLengthOf(frame.hashLengthArg)).prefix)

\* Begin getting the crypto instance before validateEmailAlias looks at fullAlias.
BeginCryptoFirst(environment, frame) ==
  IF frame.fn = "generateEmailAlias"
    THEN IF AliasPartsError(frame.aliasParts) # ""
           THEN Settled(frame, Throw(AliasPartsError(frame.aliasParts), 0))
         ELSE EnterHmac(environment, frame, frame.secretKey, JoinParts(frame.aliasParts.items))
  ELSE LET match == MatchAlias(frame.fullAlias.str, HashLengthOf(frame.hashLengthArg))
       IN  IF ~getCryptoInstance(environment).ok
             THEN Settled(frame, Throw(getCryptoInstance(environment).error, 1))
           ELSE IF ~Truthy(frame.fullAlias) \/ frame.fullAlias.type # "string"
             THEN Settled(frame, Return(JsString(<<>>), 0))
           ELSE IF ~match.matched THEN Settled(frame, Return(JsString(<<>>), 0))
           ELSE IF match.prefix = <<>> \/ match.hash = <<>>
             THEN Settled(frame, Return(JsString(<<>>), 0))
           ELSE NextCandidate(environment, frame,
                              CandidateKeys(frame.keysRecipientMap, Substring(match.hash, 0, 2)))

\* A call from its start to its first await or to its end.
Begin(environment, frame) ==
  IF frame.fn = "generateEmailAlias"
    THEN IF AliasPartsError(frame.aliasParts) # ""
           THEN Settled(frame, Throw(AliasPartsError(frame.aliasParts), 0))
         ELSE EnterHmac(environment, frame, frame.secretKey, JoinParts(frame.aliasParts.items))
  ELSE LET match == MatchAlias(frame.fullAlias.str, HashLengthOf(frame.hashLengthArg))
       IN  IF ~Truthy(frame.fullAlias) \/ frame.fullAlias.type # "string"
             THEN Settled(frame, Return(JsString(<<>>), 0))
           ELSE IF ~match.matched THEN Settled(frame, Return(JsString(<<>>), 0))
           ELSE IF match.prefix = <<>> \/ match.hash = <<>>
             THEN Settled(frame, Return(JsString(<<>>), 0))
           ELSE NextCandidate(environment, frame,
                              CandidateKeys(frame.keysRecipientMap, Substring(match.hash, 0, 2)))

\* importKey settles: it rejects key data of length zero, and otherwise the
\* call goes on to sign with the key it imported.
importKey(frame) ==
  IF TextEncode(frame.key) = <<>> THEN Settled(frame, Throw(ZeroLengthKey, frame.calls))
  ELSE [frame EXCEPT !.pc = "sign", !.cryptoKey = frame.key]

\* The key a call signs with, were it the key the first call of the run imported.
importedKeyOfFirstCall(all, i) ==
  IF all[1].cryptoKey # NoKey THEN all[1].cryptoKey ELSE all[i].cryptoKey

\* The key a call signs with: the constant of its own run of _getHmacSignature.
importedKey(all, i) == all[i].cryptoKey

\* sign with the loop going on to the next candidate when the value of the
\* matching key is not a string.
signUntilString(environment, frame, signature) ==
  LET hashLength == HashLengthOf(frame.hashLengthArg)
      fullHash == _bufferToHex(signature)
  IN  IF frame.fn = "generateEmailAlias"
        THEN Settled(frame,
               Return(JsString(frame.data \o <<"-">>
                               \o FinalHash(KeyHintOf(frame.secretKey),
                                            Substring(fullHash, 0, hashLength - 2))
                               \o <<"@">> \o frame.domain), frame.calls))
      ELSE LET match == MatchAlias(frame.fullAlias.str, hashLength)
               actualHash == Substring(match.hash, 2, Len(match.hash))
               secretKey == Head(frame.candidateKeys)
               recipient == Lookup(frame.keysRecipientMap, secretKey)
           IN  IF HashMatches(Substring(fullHash, 0, hashLength - 2), actualHash)
                  /\ recipient.type = "string"
                 THEN Settled(frame, Return(recipient, frame.calls))
               ELSE NextCandidate(environment, frame, Tail(frame.candidateKeys))

\* sign settles, and the caller goes on to its end or to its next await.
sign(environment, frame, signature) ==
  LET hashLength == HashLengthOf(frame.hashLengthArg)
      fullHash == _bufferToHex(signature)
  IN  IF frame.fn = "generateEmailAlias"
        THEN Settled(frame,
               Return(JsString(frame.data \o <<"-">>
                               \o FinalHash(KeyHintOf(frame.secretKey),
                                            Substring(fullHash, 0, hashLength - 2))
                               \o <<"@">> \o frame.domain), frame.calls))
      ELSE LET match == MatchAlias(frame.fullAlias.str, hashLength)
               actualHash == Substring(match.hash, 2, Len(match.hash))
               secretKey == Head(frame.candidateKeys)
               recipient == Lookup(frame.keysRecipientMap, secretKey)
           IN  IF HashMatches(Substring(fullHash, 0, hashLength - 2), actualHash)
                 THEN IF recipient.type = "string" THEN Settled(frame, Return(recipient, frame.calls))
                      ELSE Settled(frame, Return(JsString(<<>>), frame.calls))
               ELSE NextCandidate(environment, frame, Tail(frame.candidateKeys))

\* How often a call has called getCryptoInstance so far.
RunsOf(frame) == IF frame.pc = "done" THEN frame.outcome.hmacCalls ELSE frame.calls

(***************************************************************************)
(* generateSecureRandomString                                              *)
(*                                                                         *)
(* A length argument is a JavaScript value.  A number that is not an       *)
(* integer (NaN, Infinity, -Infinity, 2.5, -0.5) carries its name in str   *)
(* and its integer part in num.                                            *)
(***************************************************************************)
JsNonInteger(name, whole) == [type |-> "number", str |-> name, num |-> whole]

\* IsInteger from the type alone.
IsIntegerByType(v) == v.type = "number"

\* Number.isInteger(v)
IsInteger(v) == v.type = "number" /\ v.str = <<>>

InvalidLength == "Length must be a positive integer."

Base64Unavailable == "Base64 encoding not available in this environment"

QuotaExceeded == "QuotaExceededError: The requested length exceeds 65,536 bytes"

\* Math.ceil((length * 3) / 4) + 2
BytesNeeded(length) == ((length * 3 + 3) \div 4) + 2

\* crypto.getRandomValues(array) fills at most 65536 bytes: the error it ends
\* with, "" when it fills the array.
getRandomValuesError(byteLength) == IF byteLength > 65536 THEN QuotaExceeded ELSE ""

\* The bytes getRandomValues writes are the repetition of a sequence fill.
RandomBytes(n, fill) == <<>> \o [i \in 1..n |-> fill[((i - 1) % Len(fill)) + 1]]

Base64Alphabet ==
  <<"A", "B", "C", "D", "E", "F", "G", "H", "I", "J", "K", "L", "M", "N", "O", "P",
    "Q", "R", "S", "T", "U", "V", "W", "X", "Y", "Z", "a", "b", "c", "d", "e", "f",
    "g", "h", "i", "j", "k", "l", "m", "n", "o", "p", "q", "r", "s", "t", "u", "v",
    "w", "x", "y", "z", "0", "1", "2", "3", "4", "5", "6", "7", "8", "9", "+", "/">>

ByteAt(bytes, i) == IF i <= Len(bytes) THEN bytes[i] ELSE 0

\* The j-th group of six bits of the bytes, zero bits after the last byte.
Sextet(bytes, j) ==
  LET b == ((6 * (j - 1)) \div 8) + 1
      r == (6 * (j - 1)) % 8
  IN  CASE r = 0 -> bytes[b] \div 4
        [] r = 6 -> (bytes[b] % 4) * 16 + (ByteAt(bytes, b + 1) \div 16)
        [] r = 4 -> (bytes[b] % 16) * 4 + (ByteAt(bytes, b + 1) \div 64)
        [] r = 2 -> bytes[b] % 64

\* Buffer.from(bytes).toString("base64") and btoa(String.fromCharCode(...bytes)):
\* one character for each group of six bits, "=" up to a multiple of four.
Base64(bytes) ==
  Only({<<>> \o [j \in 1..(4 * ((Len(b) + 2) \div 3)) |->
                  IF j <= (4 * Len(b) + 2) \div 3 THEN Base64Alphabet[Sextet(b, j) + 1] ELSE "="] :
          b \in {bytes}})

NotPadding(c) == c # "="

\* .replace(/\+/g, "-").replace(/\//g, "_").replace(/=/g, "")
UrlSafe(base64) ==
  Only({SelectSeq(<<>> \o [j \in 1..Len(t) |->
                            IF t[j] = "+" THEN "-" ELSE IF t[j] = "/" THEN "_" ELSE t[j]],
                  NotPadding) :
          t \in {base64}})

RandomReturn(value, bytes) ==
  [kind |-> "return", value |-> value, error |-> "", probes |-> 1, randomBytes |-> bytes]

RandomThrow(message, probes, bytes) ==
  [kind |-> "throw", value |-> JsUndefined, error |-> message, probes |-> probes, randomBytes |-> bytes]

\* encoder says what the environment has to encode base64 with: "Buffer",
\* "btoa" or "none".
generateSecureRandomString(env, encoder, length, fill) ==
  IF ~IsInteger(length) \/ length.num <= 0 THEN RandomThrow(InvalidLength, 0, 0)
  ELSE IF ~getCryptoInstance(env).ok THEN RandomThrow(getCryptoInstance(env).error, 1, 0)
  ELSE IF getRandomValuesError(BytesNeeded(length.num)) # ""
    THEN RandomThrow(getRandomValuesError(BytesNeeded(length.num)), 1, BytesNeeded(length.num))
  ELSE IF encoder = "none" THEN RandomThrow(Base64Unavailable, 1, BytesNeeded(length.num))
  ELSE RandomReturn(
         Only({JsString(Substring(urlSafe, 0, length.num)) :
                 urlSafe \in {UrlSafe(Base64(RandomBytes(BytesNeeded(length.num), fill)))}}),
         BytesNeeded(length.num))

(***************************************************************************)
(* The Cloudflare Worker email handler, worker.ts                          *)
(*                                                                         *)
(* An environment variable (EMAIL_OPTIONS, EMAIL_SECRET_MAPPING) is unset  *)
(* (undefined or ""), a string JSON.parse throws on, or a string that      *)
(* parses to a JSON value.  The JSON value of EMAIL_OPTIONS has a shape    *)
(* ("object", "null" or "number"), a default_email_address and an          *)
(* ignore_email_checks that is missing, an array, null, a string or a      *)
(* number.  The JSON value of EMAIL_SECRET_MAPPING has a shape and the     *)
(* entries of the object.                                                  *)
(***************************************************************************)
NoList == [kind |-> "missing", items |-> <<>>]

ListOf(kind, items) == [kind |-> kind, items |-> items]

OptionsJson(shape, address, list) ==
  [shape |-> shape, default_email_address |-> address, ignore_email_checks |-> list]

MappingJson(shape, entries) == [shape |-> shape, entries |-> entries]

Unset(json) == [kind |-> "unset", json |-> json]

Unparseable(json) == [kind |-> "invalid", json |-> json]

Parsed(json) == [kind |-> "json", json |-> json]

MissingFields == "Invalid email message: missing to/from fields."

OptionsNotConfigured == "Configuration error: EMAIL_OPTIONS not configured."

InvalidOptionsJson == "Configuration error: Invalid EMAIL_OPTIONS JSON."

NoDefaultAddress == "Configuration error: No default email address specified."

DestructureNull == "TypeError: Cannot destructure property 'default_email_address' of 'options' as it is null."

IncludesNotFunction == "TypeError: ignore_email_checks.includes is not a function"

IncludesOfNull == "TypeError: Cannot read properties of null (reading 'includes')"

KeysOfNull == "TypeError: Cannot convert undefined or null to object"

ValidatorFailed == "Validation failed"

\* String.prototype.includes
Contains(s, t) == \E i \in 0..(Len(s) - Len(t)) : SubSeq(s, i + 1, i + Len(t)) = t

\* An ignore list that holds no sender.
IncludesNothing(list, from) == FALSE

\* ignore_email_checks.includes(message.from) for an array or a string;
\* a missing ignore_email_checks is [].
Includes(list, from) ==
  CASE list.kind = "array" -> \E i \in 1..Len(list.items) : list.items[i] = from
    [] list.kind = "string" -> Contains(list.items[1].str, from.str)
    [] OTHER -> FALSE

\* What a run of the handler did: the reasons of its setReject calls, the
\* destinations of its forward calls and whether each failed, the error it
\* threw ("" when it returned), and its calls of validateEmailAlias.
Handled(rejects, forwards, threw, validateCalls, hmacCalls) ==
  [rejects |-> rejects, forwards |-> forwards, threw |-> threw,
   validateCalls |-> validateCalls, hmacCalls |-> hmacCalls]

Rejected(reason) == Handled(<<reason>>, <<>>, "", 0, 0)

\* safeForward calling forward again when the first call failed.
safeForwardTwice(destination, forwardFails, validateCalls, hmacCalls) ==
  Handled(<<>>,
          IF forwardFails
            THEN <<[destination |-> destination, failed |-> TRUE],
                   [destination |-> destination, failed |-> TRUE]>>
          ELSE <<[destination |-> destination, failed |-> FALSE]>>,
          "", validateCalls, hmacCalls)

\* safeForward: message.forward is called and its failure is logged.
safeForward(destination, forwardFails, validateCalls, hmacCalls) ==
  Handled(<<>>, <<[destination |-> destination, failed |-> forwardFails]>>, "",
          validateCalls, hmacCalls)

\* The call validateEmailAlias({keysRecipientMap, fullAlias}) on the parsed
\* mapping, run to its first await or to its end: Object.keys throws on null
\* and gives no key for a number.
validateParsed(env, json, fullAlias) ==
  LET called(keysRecipientMap) ==
        Frame("validateEmailAlias", <<>>, Missing, <<>>, keysRecipientMap, fullAlias, Omitted)
  IN  IF json.shape = "object" THEN Begin(env, called(json.entries))
      ELSE IF json.shape = "null"
              /\ Truthy(fullAlias) /\ fullAlias.type = "string"
              /\ MatchAlias(fullAlias.str, DefaultHashLength).matched
              /\ MatchAlias(fullAlias.str, DefaultHashLength).prefix # <<>>
        THEN Settled(called(<<>>), Throw(KeysOfNull, 0))
      ELSE Begin(env, called(<<>>))

\* The validateEmailAlias the handler imports, called: the library's ("real")
\* or one of the doubles of worker.test.ts, whose promise is settled at once.
importedValidate(env, validator, json, fullAlias) ==
  LET double(outcome) ==
        Settled(Frame("validateEmailAlias", <<>>, Missing, <<>>, <<>>, fullAlias, Omitted),
                outcome)
  IN  CASE validator = "real" -> validateParsed(env, json, fullAlias)
        [] validator = "null" -> double(Return(JsNull, 0))
        [] validator = "undefined" -> double(Return(JsUndefined, 0))
        [] validator = "throws" -> double(Throw(ValidatorFailed, 0))

\* Where a run of the handler is: it waits for the promise of
\* validateEmailAlias ("validate") or of message.forward ("forward"), or it has
\* ended ("done").  outcome is what the run has done so far; at "validate" the
\* call of validateEmailAlias has been made and promise is that call, where
\* it waits or as it ended.
Ended(outcome) == [pc |-> "done", destination |-> JsUndefined, outcome |-> outcome]

AwaitValidate(promise) ==
  [pc |-> "validate", destination |-> JsUndefined, promise |-> promise,
   outcome |-> Handled(<<>>, <<>>, "", 1, RunsOf(promise))]

AwaitForward(destination, validateCalls, hmacCalls) ==
  [pc |-> "forward", destination |-> destination,
   outcome |-> Handled(<<>>, <<>>, "", validateCalls, hmacCalls)]

\* The handler rejecting when validateEmailAlias gives no recipient.
AfterValidationRejecting(result, default_email_address) ==
  IF result.kind = "return" /\ Truthy(result.value)
    THEN AwaitForward(result.value, 1, result.hmacCalls)
    ELSE Ended(Handled(<<"Invalid alias">>, <<>>, "", 1, result.hmacCalls))

\* worker.ts 116-140, from the end of the await on validateEmailAlias to the
\* await in safeForward: the destination validateEmailAlias gives, or the
\* default address when it gives none or throws.
AfterValidation(result, default_email_address) ==
  IF result.kind = "return" /\ Truthy(result.value)
    THEN AwaitForward(result.value, 1, result.hmacCalls)
    ELSE AwaitForward(default_email_address, 1, result.hmacCalls)

\* The handler from its start to its first await or to its end.
email(env, message, EMAIL_OPTIONS, EMAIL_SECRET_MAPPING, validator) ==
  LET options == EMAIL_OPTIONS.json
      default_email_address ==
        IF options.shape = "object" THEN options.default_email_address ELSE JsUndefined
      ignore_email_checks ==
        IF options.shape = "object" THEN options.ignore_email_checks ELSE NoList
  IN  IF ~Truthy(message.to) \/ ~Truthy(message.from) THEN Ended(Rejected(MissingFields))
      ELSE IF EMAIL_OPTIONS.kind = "unset" THEN Ended(Rejected(OptionsNotConfigured))
      ELSE IF EMAIL_OPTIONS.kind = "invalid" THEN Ended(Rejected(InvalidOptionsJson))
      ELSE IF options.shape = "null" THEN Ended(Handled(<<>>, <<>>, DestructureNull, 0, 0))
      ELSE IF ~Truthy(default_email_address) THEN Ended(Rejected(NoDefaultAddress))
      ELSE IF ignore_email_checks.kind = "null"
        THEN Ended(Handled(<<>>, <<>>, IncludesOfNull, 0, 0))
      ELSE IF ignore_email_checks.kind = "number"
        THEN Ended(Handled(<<>>, <<>>, IncludesNotFunction, 0, 0))
      ELSE IF Includes(ignore_email_checks, message.from)
        THEN AwaitForward(default_email_address, 0, 0)
      ELSE IF EMAIL_SECRET_MAPPING.kind = "unset"
        THEN AwaitForward(default_email_address, 0, 0)
      ELSE IF EMAIL_SECRET_MAPPING.kind = "invalid"
        THEN AwaitForward(default_email_address, 0, 0)
      ELSE AwaitValidate(importedValidate(env, validator, EMAIL_SECRET_MAPPING.json,
                                          message.to))

(***************************************************************************)
(* The state: the environment and one exchange, the generateEmailAlias     *)
(* call whose alias is under validation (if any) and the validateEmailAlias*)
(* call.  The calls keep nothing between them, so the next exchange starts *)
(* from an empty record.  gen and val hold the calls that have ended; a    *)
(* call that waits at an await is in frames.                               *)
(***************************************************************************)
VARIABLES env, gen, val

\* The module's life in one runtime: whether it was evaluated ("no", "yes",
\* "failed"), how often getCrypto has run, the latest call and an earlier
\* call that is kept for comparison.
VARIABLES loaded, probes, earlier, call

runtimeVars == <<_cryptoInstance, loaded, probes, earlier, call>>

\* One call of generateSecureRandomString.
VARIABLE random

\* One run of getCrypto, statement by statement.
VARIABLE resolve

\* One run of the worker's email handler.
VARIABLE mail

\* The calls of generateEmailAlias and validateEmailAlias that are under way.
VARIABLE frames

\* The variables of the specifications that follow the runtime's.
beside == <<random, resolve, mail, frames>>

\* What the exchanges of Spec leave alone.
others == <<runtimeVars, beside>>

vars == <<env, gen, val, others>>

NoCall == [fn |-> "none", args |-> <<>>, instance |-> NoInstance, outcome |-> [kind |-> "none"]]

\* No module life is followed.
RuntimeIdle ==
  /\ _cryptoInstance = NoInstance
  /\ loaded = "no"
  /\ probes = 0
  /\ earlier = NoCall
  /\ call = NoCall

NoGenerate ==
  [called |-> FALSE, secretKey |-> <<>>, aliasParts |-> Missing, domain |-> <<>>,
   hashLength |-> Omitted, outcome |-> NoOutcome]

NoValidate ==
  [called |-> FALSE, origin |-> "none", keysRecipientMap |-> <<>>, fullAlias |-> JsUndefined,
   hashLength |-> Omitted, outcome |-> NoOutcome]

NoRandom ==
  [called |-> FALSE, encoder |-> "none", length |-> JsUndefined, fill |-> <<>>,
   outcome |-> RandomThrow("", 0, 0)]

\* at is the source the next statement looks at, tried the sources looked at
\* so far, outcome what getCrypto ended with.
NoResolve == [at |-> 1, tried |-> <<>>, done |-> FALSE, outcome |-> NotFound("")]

NoOptions == OptionsJson("object", JsUndefined, NoList)

NoMapping == MappingJson("object", <<>>)

NoMail ==
  [handled |-> FALSE,
   pc |-> "idle",
   destination |-> JsUndefined,
   message |-> [to |-> JsString(<<>>), from |-> JsString(<<>>)],
   EMAIL_OPTIONS |-> Unset(NoOptions),
   EMAIL_SECRET_MAPPING |-> Unset(NoMapping),
   validator |-> "real",
   forwardFails |-> FALSE,
   outcome |-> Handled(<<>>, <<>>, "", 0, 0)]

BesideIdle == random = NoRandom /\ resolve = NoResolve /\ mail = NoMail /\ frames = <<>>

Init ==
  /\ env \in Environments
  /\ gen = NoGenerate
  /\ val = NoValidate
  /\ RuntimeIdle
  /\ BesideIdle

\* A validateEmailAlias call of the exchange, as it is made; origin tells where
\* its fullAlias comes from.
Validation(origin, keysRecipientMap, fullAlias, hashLengthArg) ==
  [Frame("validateEmailAlias", <<>>, Missing, <<>>, keysRecipientMap, fullAlias,
         hashLengthArg) EXCEPT !.origin = origin]

\* What an ended call leaves in the exchange.
GenerationOf(frame) ==
  [called |-> TRUE, secretKey |-> frame.secretKey, aliasParts |-> frame.aliasParts,
   domain |-> frame.domain, hashLength |-> frame.hashLengthArg, outcome |-> frame.outcome]

ValidationOf(frame) ==
  [called |-> TRUE, origin |-> frame.origin, keysRecipientMap |-> frame.keysRecipientMap,
   fullAlias |-> frame.fullAlias, hashLength |-> frame.hashLengthArg,
   outcome |-> frame.outcome]

\* A call of the exchange has run up to an await or to its end: it waits in
\* frames, or its promise settles and the exchange has its outcome.
Proceed(frame) ==
  /\ frames' = IF frame.pc = "done" THEN <<>> ELSE <<frame>>
  /\ gen' = IF frame.pc = "done" /\ frame.fn = "generateEmailAlias" THEN GenerationOf(frame)
            ELSE gen
  /\ val' = IF frame.pc = "done" /\ frame.fn = "validateEmailAlias" THEN ValidationOf(frame)
            ELSE val
  /\ UNCHANGED <<env, runtimeVars, random, resolve, mail>>

\* generateEmailAlias is called and runs up to its first await.
Generate(secretKey, aliasParts, domain, hashLengthArg) ==
  /\ ~gen.called /\ ~val.called /\ frames = <<>>
  /\ Proceed(Begin(env, Frame("generateEmailAlias", secretKey, aliasParts, domain, <<>>,
                              JsUndefined, hashLengthArg)))

\* The generated alias is validated as it is.
ValidateGenerated(keysRecipientMap, hashLengthArg) ==
  /\ gen.outcome.kind = "return" /\ ~val.called /\ frames = <<>>
  /\ Proceed(Begin(env, Validation("generated", keysRecipientMap, gen.outcome.value,
                                   hashLengthArg)))

\* Where the signature segment of the generated alias starts, and its length.
SegmentStart == Len(JoinParts(gen.aliasParts.items)) + 1

SegmentLength == Len(gen.outcome.value.str) - SegmentStart - 1 - Len(gen.domain)

\* The generated alias is validated, with the hash length it was generated
\* with, after one character of its signature segment was replaced by
\* another hex digit.
ValidateTampered(keysRecipientMap, pos, digit) ==
  /\ gen.outcome.kind = "return" /\ ~val.called /\ frames = <<>>
  /\ pos <= SegmentLength
  /\ gen.outcome.value.str[SegmentStart + pos] # digit
  /\ Proceed(Begin(env, Validation("tampered", keysRecipientMap,
                     JsString([gen.outcome.value.str EXCEPT ![SegmentStart + pos] = digit]),
                     gen.hashLength)))

\* A value that no generateEmailAlias call produced is validated.
ValidateLiteral(keysRecipientMap, fullAlias, hashLengthArg) ==
  /\ ~gen.called /\ ~val.called /\ frames = <<>>
  /\ Proceed(Begin(env, Validation("literal", keysRecipientMap, fullAlias, hashLengthArg)))

\* The importKey the call of the exchange waits for settles.
KeyImported ==
  /\ frames # <<>> /\ frames[1].pc = "importKey"
  /\ Proceed(importKey(frames[1]))

\* The sign the call of the exchange waits for settles.
Signed ==
  /\ frames # <<>> /\ frames[1].pc = "sign"
  /\ Proceed(sign(env, frames[1], _getHmacSignature(importedKey(frames, 1), frames[1].data)))

\* The exchange is over; the next one starts.
Forget ==
  /\ gen.called \/ val.called
  /\ frames = <<>>
  /\ gen' = NoGenerate
  /\ val' = NoValidate
  /\ UNCHANGED <<env, others>>

Next ==
  \/ \E k \in SecretKeys, p \in AliasPartsInputs, d \in Domains, h \in HashLengthArgs :
       Generate(k, p, d, h)
  \/ \E m \in KeysRecipientMaps, h \in HashLengthArgs : ValidateGenerated(m, h)
  \/ \E m \in KeysRecipientMaps, pos \in 1..MaxTamperPos, digit \in ReplacementDigits :
       ValidateTampered(m, pos, digit)
  \/ \E m \in KeysRecipientMaps, a \in LiteralAliases, h \in HashLengthArgs :
       ValidateLiteral(m, a, h)
  \/ KeyImported
  \/ Signed
  \/ Forget

Spec == Init /\ [][Next]_vars

(***************************************************************************)
(* The module in one runtime: it is evaluated once, then its exports are   *)
(* used in any order.  _cryptoInstance is the only thing the module keeps  *)
(* between two uses.  While a call of generateEmailAlias or                *)
(* validateEmailAlias waits at an await, the synchronous exports are used. *)
(***************************************************************************)
MaxProbes == 3

\* ModuleLoad with getCrypto called while the module is evaluated.
ModuleLoadEager(environment) ==
  [ok |-> getCrypto(environment).ok,
   instance |-> IF getCrypto(environment).ok THEN getCrypto(environment).source ELSE NoInstance,
   probes |-> 1]

\* Evaluating the module: getCryptoInstance is defined as a function,
\* _cryptoInstance is set to null and the crypto object gets its two lazy
\* members; getCrypto is not called.
ModuleLoad(environment) == [ok |-> TRUE, instance |-> NoInstance, probes |-> 0]

\* CryptoMember running getCrypto at every use.
CryptoMemberUncached(environment, instance) ==
  IF getCrypto(environment).ok
    THEN [kind |-> "return", error |-> "", instance |-> getCrypto(environment).source, probes |-> 1]
  ELSE [kind |-> "throw", error |-> getCrypto(environment).error, instance |-> NoInstance, probes |-> 1]

\* crypto.subtle and crypto.getRandomValues: getCrypto runs when
\* _cryptoInstance is null, and its result is kept.
CryptoMember(environment, instance) ==
  IF instance # NoInstance
    THEN [kind |-> "return", error |-> "", instance |-> instance, probes |-> 0]
  ELSE IF getCrypto(environment).ok
    THEN [kind |-> "return", error |-> "", instance |-> getCrypto(environment).source, probes |-> 1]
  ELSE [kind |-> "throw", error |-> getCrypto(environment).error, instance |-> NoInstance, probes |-> 1]

\* The arguments the calls of a module life are made with.
RuntimeKeys == {KeyAB, <<>>}

RuntimeParts == {PartsP, Array(<<>>)}

RuntimeHashLengths == {Omitted, Given(2)}

RuntimeMaps == {<<Entry(KeyAB, R1)>>, <<Entry(KeyAB, R1), Entry(KeyAC, R2)>>, <<Entry(KeyE, R1)>>}

RuntimeAliases ==
  {JsNull, JsString(<<"p", "-", "6", "1", "@", "d">>),
   generateEmailAlias(WorkerEnv, KeyAB, PartsP, DomainD, Omitted).value}

Called(fn, args, outcome) ==
  [fn |-> fn, args |-> args, instance |-> _cryptoInstance, outcome |-> outcome]

LoadModule ==
  /\ loaded = "no"
  /\ loaded' = IF ModuleLoad(env).ok THEN "yes" ELSE "failed"
  /\ _cryptoInstance' = ModuleLoad(env).instance
  /\ probes' = probes + ModuleLoad(env).probes
  /\ UNCHANGED <<env, gen, val, earlier, call, beside>>

\* crypto.subtle or crypto.getRandomValues is read.
UseCrypto(member) ==
  /\ loaded = "yes"
  /\ probes + CryptoMember(env, _cryptoInstance).probes <= MaxProbes
  /\ _cryptoInstance' = CryptoMember(env, _cryptoInstance).instance
  /\ probes' = probes + CryptoMember(env, _cryptoInstance).probes
  /\ call' = Called(member, <<>>, [kind |-> CryptoMember(env, _cryptoInstance).kind,
                                   error |-> CryptoMember(env, _cryptoInstance).error])
  /\ UNCHANGED <<env, gen, val, loaded, earlier, beside>>

\* The arguments a call was made with.
ArgsOf(frame) ==
  IF frame.fn = "generateEmailAlias"
    THEN <<frame.secretKey, frame.aliasParts, frame.domain, frame.hashLengthArg>>
  ELSE <<frame.keysRecipientMap, frame.fullAlias, frame.hashLengthArg>>

\* How often a call that has run up to its first await may call
\* getCryptoInstance in all: once for each candidate key.
MostRuns(frame) ==
  IF frame.pc = "done" THEN frame.outcome.hmacCalls
  ELSE IF frame.fn = "generateEmailAlias" THEN 1
  ELSE Len(frame.candidateKeys)

\* A call of the module life has run up to an await or to its end.
\* _getHmacSignature calls getCryptoInstance once for each signature, and
\* getCryptoInstance runs getCrypto.
Advance(frame) ==
  /\ probes' = probes + RunsOf(frame) - (IF frames = <<>> THEN 0 ELSE frames[1].calls)
  /\ frames' = IF frame.pc = "done" THEN <<>> ELSE <<frame>>
  /\ call' = IF frame.pc = "done" THEN Called(frame.fn, ArgsOf(frame), frame.outcome) ELSE call
  /\ UNCHANGED <<env, gen, val, _cryptoInstance, loaded, earlier, random, resolve, mail>>

\* generateEmailAlias is called and runs up to its first await.
CallGenerate(secretKey, aliasParts, domain, hashLengthArg) ==
  LET frame == Begin(env, Frame("generateEmailAlias", secretKey, aliasParts, domain, <<>>,
                                JsUndefined, hashLengthArg))
  IN  /\ loaded = "yes" /\ frames = <<>>
      /\ probes + MostRuns(frame) <= MaxProbes
      /\ Advance(frame)

\* validateEmailAlias is called and runs up to its first await.
CallValidate(keysRecipientMap, fullAlias, hashLengthArg) ==
  LET frame == Begin(env, Frame("validateEmailAlias", <<>>, Missing, <<>>, keysRecipientMap,
                                fullAlias, hashLengthArg))
  IN  /\ loaded = "yes" /\ frames = <<>>
      /\ probes + MostRuns(frame) <= MaxProbes
      /\ Advance(frame)

\* generateEmailAlias with the arguments of a test vector.
CallGenerateVector(v) == CallGenerate(v.secretKey, v.aliasParts, v.domain, v.hashLength)

\* The importKey the call waits for settles.
CallKeyImported ==
  /\ frames # <<>> /\ frames[1].pc = "importKey"
  /\ Advance(importKey(frames[1]))

\* The sign the call waits for settles.
CallSigned ==
  /\ frames # <<>> /\ frames[1].pc = "sign"
  /\ Advance(sign(env, frames[1], _getHmacSignature(importedKey(frames, 1), frames[1].data)))

\* generateSecureRandomString calls getCryptoInstance once, after the check
\* of its length.
CallRandom(encoder, length, fill) ==
  LET outcome == generateSecureRandomString(env, encoder, length, fill)
  IN  /\ loaded = "yes"
      /\ probes + outcome.probes <= MaxProbes
      /\ probes' = probes + outcome.probes
      /\ call' = Called("generateSecureRandomString", <<length>>, outcome)
      /\ UNCHANGED <<env, gen, val, _cryptoInstance, loaded, earlier, beside>>

\* The latest call of generateEmailAlias or validateEmailAlias is kept.
Remember ==
  /\ call.fn \in {"generateEmailAlias", "validateEmailAlias"}
  /\ earlier # call
  /\ earlier' = call
  /\ UNCHANGED <<env, gen, val, _cryptoInstance, loaded, probes, call, beside>>

RuntimeInit ==
  /\ env \in Environments
  /\ gen = NoGenerate
  /\ val = NoValidate
  /\ RuntimeIdle
  /\ BesideIdle

RuntimeLengths == {JsNumber(0), JsNumber(3)}

RuntimeNext ==
  \/ LoadModule
  \/ \E member \in {"crypto.subtle", "crypto.getRandomValues"} : UseCrypto(member)
  \/ \E k \in RuntimeKeys, p \in RuntimeParts, h \in RuntimeHashLengths : CallGenerate(k, p, DomainD, h)
  \/ \E m \in RuntimeMaps, a \in RuntimeAliases, h \in RuntimeHashLengths : CallValidate(m, a, h)
  \/ \E v \in TestVectors : CallGenerateVector(v)
  \/ CallKeyImported
  \/ CallSigned
  \/ \E length \in RuntimeLengths : CallRandom("btoa", length, <<105, 183, 29>>)
  \/ Remember

RuntimeSpec == RuntimeInit /\ [][RuntimeNext]_vars

(***************************************************************************)
(* Calls of generateSecureRandomString, each with the length it is asked   *)
(* for, the bytes the random source gives and the base64 encoder the       *)
(* environment has.                                                        *)
(***************************************************************************)
MaxLength == 6

\* The longest length whose bytes getRandomValues fills in one call.
LongestLength == (4 * (65536 - 2)) \div 3

RandomLengths ==
  {JsNumber(n) : n \in (-1..MaxLength) \cup {LongestLength, LongestLength + 1}}
  \cup {JsNonInteger(<<"N", "a", "N">>, 0),
        JsNonInteger(<<"I", "n", "f", "i", "n", "i", "t", "y">>, 2 * 65536),
        JsNonInteger(<<"-", "I", "n", "f", "i", "n", "i", "t", "y">>, -2 * 65536),
        JsNonInteger(<<"2", ".", "5">>, 2),
        JsNonInteger(<<"-", "0", ".", "5">>, 0),
        JsString(<<"5">>), JsUndefined, JsNull}

RandomFills == {<<0>>, <<255>>, <<251, 239, 190>>, <<105, 183, 29>>, <<1, 2, 3, 4, 5>>}

Encoders == {"Buffer", "btoa", "none"}

RandomString(encoder, length, fill) ==
  /\ ~random.called
  /\ random' = [called |-> TRUE, encoder |-> encoder, length |-> length, fill |-> fill,
                outcome |-> generateSecureRandomString(env, encoder, length, fill)]
  /\ UNCHANGED <<env, gen, val, runtimeVars, resolve, mail, frames>>

ForgetRandom ==
  /\ random.called
  /\ random' = NoRandom
  /\ UNCHANGED <<env, gen, val, runtimeVars, resolve, mail, frames>>

RandomInit ==
  /\ env \in Environments
  /\ gen = NoGenerate
  /\ val = NoValidate
  /\ RuntimeIdle
  /\ BesideIdle

RandomNext ==
  \/ \E encoder \in Encoders, length \in RandomLengths, fill \in RandomFills :
       RandomString(encoder, length, fill)
  \/ ForgetRandom

RandomSpec == RandomInit /\ [][RandomNext]_vars

(***************************************************************************)
(* getCrypto statement by statement, in every environment.                 *)
(***************************************************************************)
Try(source) ==
  /\ ~resolve.done
  /\ Sources[resolve.at] = source
  /\ resolve' =
       Only({[at |-> IF p.kind = "next" THEN resolve.at + 1 ELSE resolve.at,
              tried |-> Append(resolve.tried, source),
              done |-> p.kind # "next",
              outcome |-> IF p.kind = "return" THEN Found(source) ELSE NotFound(p.error)] :
               p \in {Probe(env, source)}})
  /\ UNCHANGED <<env, gen, val, runtimeVars, random, mail, frames>>

TrySelf == Try("self")

TryGlobalThis == Try("globalThis")

TryWindow == Try("window")

TryNodeCrypto == Try("node:crypto")

TryCrypto == Try("crypto")

ResolveInit ==
  /\ env \in AllEnvironments
  /\ gen = NoGenerate
  /\ val = NoValidate
  /\ RuntimeIdle
  /\ BesideIdle

ResolveNext == TrySelf \/ TryGlobalThis \/ TryWindow \/ TryNodeCrypto \/ TryCrypto

ResolveSpec == ResolveInit /\ [][ResolveNext]_vars

(***************************************************************************)
(* Runs of the worker's email handler.                                     *)
(***************************************************************************)
DefaultAddress == JsString(<<"d", "0">>)

Sender == JsString(<<"s">>)

IgnoredSender == JsString(<<"i">>)

VerifiedAlias == generateEmailAlias(WorkerEnv, KeyAB, PartsP, DomainD, Omitted).value

\* An alias with the hint of a key of the mapping and a signature of no key.
GuessedAlias == JsString(<<"p", "-", "6", "1", "0", "0", "0", "0", "0", "0", "@", "d">>)

PlainAddress == JsString(<<"x", "@", "d">>)

Recipients == {VerifiedAlias, GuessedAlias, PlainAddress, JsString(<<>>)}

Senders == {Sender, IgnoredSender, JsString(<<>>)}

IgnoreList == ListOf("array", <<IgnoredSender>>)

\* An ignore list that holds the empty string as well.
IgnoreListWithEmpty == ListOf("array", <<IgnoredSender, JsString(<<>>)>>)

OptionsInputs ==
  {Unset(NoOptions), Unparseable(NoOptions),
   Parsed(OptionsJson("object", DefaultAddress, NoList)),
   Parsed(OptionsJson("object", DefaultAddress, IgnoreList)),
   Parsed(OptionsJson("object", DefaultAddress, IgnoreListWithEmpty)),
   Parsed(OptionsJson("object", JsUndefined, IgnoreList)),
   Parsed(OptionsJson("object", JsString(<<>>), IgnoreList)),
   Parsed(OptionsJson("object", DefaultAddress, ListOf("null", <<>>))),
   Parsed(OptionsJson("object", DefaultAddress, ListOf("number", <<>>))),
   Parsed(OptionsJson("object", DefaultAddress, ListOf("string", <<JsString(<<"h", "i">>)>>))),
   Parsed(OptionsJson("null", JsUndefined, NoList)),
   Parsed(OptionsJson("number", JsUndefined, NoList))}

MappingInputs ==
  {Unset(NoMapping), Unparseable(NoMapping),
   Parsed(MappingJson("object", <<Entry(KeyAB, R1)>>)),
   Parsed(MappingJson("object", <<Entry(KeyAC, R2)>>)),
   Parsed(MappingJson("object", <<Entry(KeyAC, R2), Entry(KeyAB, R1)>>)),
   Parsed(MappingJson("object", <<Entry(KeyAB, JsString(<<>>))>>)),
   Parsed(MappingJson("null", <<>>)),
   Parsed(MappingJson("number", <<>>))}

Validators == {"real", "null", "undefined", "throws"}

\* A message arrives: the handler runs up to its first await or to its end.
\* validator and forwardFails tell what the promises of validateEmailAlias and
\* of message.forward will settle with.
Email(message, EMAIL_OPTIONS, EMAIL_SECRET_MAPPING, validator, forwardFails) ==
  LET at == email(env, message, EMAIL_OPTIONS, EMAIL_SECRET_MAPPING, validator)
  IN  /\ mail.pc = "idle"
      /\ mail' = [handled |-> at.pc = "done",
                  pc |-> at.pc,
                  destination |-> at.destination,
                  message |-> message,
                  EMAIL_OPTIONS |-> EMAIL_OPTIONS,
                  EMAIL_SECRET_MAPPING |-> EMAIL_SECRET_MAPPING,
                  validator |-> validator,
                  forwardFails |-> forwardFails,
                  outcome |-> at.outcome]
      /\ frames' = IF at.pc = "validate" THEN <<at.promise>> ELSE <<>>
      /\ UNCHANGED <<env, gen, val, runtimeVars, random, resolve>>

\* The call of validateEmailAlias the handler waits for has taken a step: while
\* it waits again the handler waits with it, and when it has ended the handler
\* goes on to the await in safeForward.
Resume(frame) ==
  LET at == AfterValidation(frame.outcome, mail.EMAIL_OPTIONS.json.default_email_address)
  IN  /\ mail' = IF frame.pc = "done"
                   THEN [mail EXCEPT !.handled = at.pc = "done", !.pc = at.pc,
                                     !.destination = at.destination, !.outcome = at.outcome]
                   ELSE [mail EXCEPT !.outcome.hmacCalls = RunsOf(frame)]
      /\ frames' = IF frame.pc = "done" THEN <<>> ELSE <<frame>>
      /\ UNCHANGED <<env, gen, val, runtimeVars, random, resolve>>

\* The promise of validateEmailAlias was settled when the handler began to wait
\* for it: the handler goes on in a microtask.
ValidationSettles ==
  /\ mail.pc = "validate" /\ frames[1].pc = "done"
  /\ Resume(frames[1])

\* The promise of importKey settles in the call the handler waits for.
ValidationKeyImported ==
  /\ mail.pc = "validate" /\ frames[1].pc = "importKey"
  /\ Resume(importKey(frames[1]))

\* The promise of sign settles in the call the handler waits for.
ValidationSigned ==
  /\ mail.pc = "validate" /\ frames[1].pc = "sign"
  /\ Resume(sign(env, frames[1], _getHmacSignature(importedKey(frames, 1), frames[1].data)))

\* The promise of message.forward settles, and the handler returns.
ForwardSettles ==
  /\ mail.pc = "forward"
  /\ mail' = [mail EXCEPT !.handled = TRUE, !.pc = "done",
                          !.outcome = safeForward(mail.destination, mail.forwardFails,
                                                  mail.outcome.validateCalls,
                                                  mail.outcome.hmacCalls)]
  /\ UNCHANGED <<env, gen, val, runtimeVars, random, resolve, frames>>

NextEmail ==
  /\ mail.handled
  /\ mail' = NoMail
  /\ UNCHANGED <<env, gen, val, runtimeVars, random, resolve, frames>>

WorkerInit ==
  /\ env \in Environments
  /\ gen = NoGenerate
  /\ val = NoValidate
  /\ RuntimeIdle
  /\ BesideIdle

Messages == {[to |-> to, from |-> from] : to \in Recipients, from \in Senders}

WorkerNext ==
  \/ \E message \in Messages, options \in OptionsInputs,
        mapping \in MappingInputs, validator \in Validators, forwardFails \in BOOLEAN :
       Email(message, options, mapping, validator, forwardFails)
  \/ ValidationSettles
  \/ ValidationKeyImported
  \/ ValidationSigned
  \/ ForwardSettles
  \/ NextEmail

WorkerSpec == WorkerInit /\ [][WorkerNext]_vars

(***************************************************************************)
(* Module lives as the tests of crypto.ts arrange them: before each test   *)
(* the module registry is reset and the globals are put back, the test     *)
(* defines the globals of its environment and then imports the module.     *)
(***************************************************************************)
\* What require is on the host that runs the tests when no test has mocked
\* it: not defined, or Node's own, whose node:crypto has webcrypto.
HostRequire == {"absent", "webcrypto"}

\* The globals of the host, which the suite keeps as the originals: Node has
\* globalThis.crypto and neither window nor self.
HostEnvironments ==
  {[self |-> "absent", globalThis |-> "usable", window |-> "absent", node |-> n] :
     n \in HostRequire}

\* The environments the tests define before their import.  The first four
\* leave require as the host has it, the others mock it.
TestEnvironments ==
  {[self |-> t[1], globalThis |-> t[2], window |-> t[3], node |-> n] :
     t \in {<<"absent", "usable", "absent">>,    \* globalThis.crypto alone
            <<"absent", "absent", "usable">>,    \* window.crypto alone
            <<"usable", "absent", "absent">>,    \* self.crypto alone
            <<"usable", "usable", "absent">>},   \* self.crypto and globalThis.crypto
     n \in HostRequire}
  \cup
  {[self |-> "absent", globalThis |-> "absent", window |-> "absent", node |-> n] :
     n \in {"webcrypto",           \* require("node:crypto") has webcrypto
            "legacy",              \* node:crypto throws, require("crypto") has webcrypto
            "legacyNoWebcrypto",   \* node:crypto throws, require("crypto") has none
            "noModule"}}           \* require throws for every module
  \cup
  {[self |-> "absent", globalThis |-> g, window |-> "absent", node |-> "noModule"] :
     g \in {"noSubtle",            \* globalThis.crypto is {}
            "noGetRandomValues"}}  \* globalThis.crypto has subtle alone

\* beforeEach of the tests: jest.resetModules(), so that the next import
\* evaluates the module anew, with an empty cache, and the globals and
\* require put back to the originals.  It runs between two tests, when no call
\* is under way; the runs of getCrypto are counted from there.
beforeEach ==
  /\ frames = <<>>
  /\ env' \in HostEnvironments
  /\ _cryptoInstance' = NoInstance
  /\ loaded' = "no"
  /\ probes' = 0
  /\ earlier' = NoCall
  /\ call' = NoCall
  /\ UNCHANGED <<gen, val, beside>>

\* The Object.defineProperty calls and the mock of require at the start of a
\* test, before its import of the module.
DefineGlobals ==
  /\ loaded = "no"
  /\ env' \in TestEnvironments \ {env}
  /\ UNCHANGED <<gen, val, runtimeVars, beside>>

CacheInit ==
  /\ env \in HostEnvironments
  /\ gen = NoGenerate
  /\ val = NoValidate
  /\ RuntimeIdle
  /\ BesideIdle

\* The alias generateEmailAlias gives for a key, with a short hash.
AliasOf(secretKey) ==
  generateEmailAlias(WorkerEnv, secretKey, PartsP, DomainD, Given(MaxShortHash)).value

BothKeys == <<Entry(KeyAB, R1), Entry(KeyAC, R2)>>

CacheLengths == {Given(2), Given(MaxShortHash)}

CacheMaps == {<<Entry(KeyAB, R1)>>, BothKeys, <<Entry(KeyE, R1)>>}

CacheAliases == {JsNull, JsString(<<"p", "-", "6", "1", "@", "d">>), AliasOf(KeyAC)}

CacheNext ==
  \/ LoadModule
  \/ \E member \in {"crypto.subtle", "crypto.getRandomValues"} : UseCrypto(member)
  \/ \E h \in RuntimeHashLengths : CallGenerate(KeyAB, PartsP, DomainD, h)
  \/ \E m \in CacheMaps, a \in CacheAliases, h \in CacheLengths : CallValidate(m, a, h)
  \/ CallKeyImported
  \/ CallSigned
  \/ \E length \in RuntimeLengths : CallRandom("btoa", length, <<105, 183, 29>>)
  \/ beforeEach
  \/ DefineGlobals

CacheSpec == CacheInit /\ [][CacheNext]_vars

(***************************************************************************)
(* Calls under way at the same time: each runs from one await to the next  *)
(* without another call running in between, and any of the waiting calls   *)
(* goes on next.                                                           *)
(***************************************************************************)
MaxCalls == 2

ConcurrentCalls ==
  {Frame("generateEmailAlias", k, PartsP, DomainD, <<>>, JsUndefined, Given(MaxShortHash)) :
     k \in {KeyAB, KeyAC, <<>>}}
    \cup {Frame("generateEmailAlias", KeyAB, Array(<<>>), DomainD, <<>>, JsUndefined,
                Given(MaxShortHash))}
    \cup {Frame("validateEmailAlias", <<>>, Array(<<>>), <<>>, BothKeys, a, Given(MaxShortHash)) :
            a \in {AliasOf(KeyAB), AliasOf(KeyAC), JsString(<<"p", "@", "d">>)}}
    \cup {Frame("validateEmailAlias", <<>>, Array(<<>>), <<>>, <<Entry(KeyAC, R2)>>,
                AliasOf(KeyAB), Given(MaxShortHash))}

BeginCall(i) ==
  /\ frames[i].pc = "called"
  /\ frames' = [frames EXCEPT ![i] = Begin(env, frames[i])]
  /\ UNCHANGED <<env, gen, val, runtimeVars, random, resolve, mail>>

ImportKeySettles(i) ==
  /\ frames[i].pc = "importKey"
  /\ frames' = [frames EXCEPT ![i] = importKey(frames[i])]
  /\ UNCHANGED <<env, gen, val, runtimeVars, random, resolve, mail>>

SignSettles(i) ==
  /\ frames[i].pc = "sign"
  /\ frames' = [frames EXCEPT ![i] =
                  sign(env, frames[i], _getHmacSignature(importedKey(frames, i), frames[i].data))]
  /\ UNCHANGED <<env, gen, val, runtimeVars, random, resolve, mail>>

\* The crypto object is read between the steps of the calls.
ReadCrypto(member) ==
  /\ UseCrypto(member)
  /\ UNCHANGED frames

ConcurrentInit ==
  /\ env \in {WorkerEnv, NoCryptoEnv}
  /\ gen = NoGenerate
  /\ val = NoValidate
  /\ _cryptoInstance = NoInstance
  /\ loaded = "yes"
  /\ probes = 0
  /\ earlier = NoCall
  /\ call = NoCall
  /\ random = NoRandom /\ resolve = NoResolve /\ mail = NoMail
  /\ frames \in [1..MaxCalls -> ConcurrentCalls]

ConcurrentNext ==
  \/ \E i \in 1..MaxCalls : BeginCall(i)
  \/ \E i \in 1..MaxCalls : ImportKeySettles(i)
  \/ \E i \in 1..MaxCalls : SignSettles(i)
  \/ \E member \in {"crypto.subtle"} : ReadCrypto(member)

ConcurrentSpec == ConcurrentInit /\ [][ConcurrentNext]_vars

(***************************************************************************)
(* A generated alias is validated, and then validated again under another  *)
(* domain.                                                                 *)
(***************************************************************************)
DomainE == <<"e">>

DomainWithAt == <<"x", "@", "y">>

OtherDomains == {DomainE, DomainWithAt, DomainWithLineFeed, DomainWithSegment, <<>>}

\* The generated alias up to and with the "@" that ends its segment.
Stem == SubSeq(gen.outcome.value.str, 1, Len(gen.outcome.value.str) - Len(gen.domain))

ValidateRedomained(domain) ==
  /\ val.called /\ val.origin = "generated"
  /\ domain # gen.domain
  /\ frames = <<>>
  /\ Proceed(Begin(env, Validation("redomained", val.keysRecipientMap,
                                   JsString(Stem \o domain), val.hashLength)))

DomainKeys == {KeyAB, KeyE}

DomainParts == {PartsP, PartsAB}

GeneratedDomains == {DomainD}

DomainLengths == {Omitted, Given(2), Given(MaxShortHash)}

DomainMaps ==
  {<<Entry(KeyAB, R1), Entry(KeyE, R2)>>, <<Entry(KeyAC, R2)>>, <<Entry(KeyAB, JsNumber(7))>>}

DomainNext ==
  \/ \E k \in DomainKeys, p \in DomainParts, d \in GeneratedDomains, h \in DomainLengths :
       Generate(k, p, d, h)
  \/ \E m \in DomainMaps, h \in DomainLengths : ValidateGenerated(m, h)
  \/ \E d \in OtherDomains : ValidateRedomained(d)
  \/ KeyImported
  \/ Signed
  \/ Forget

DomainSpec == Init /\ [][DomainNext]_vars

(***************************************************************************)
(* Properties                                                              *)
(***************************************************************************)
EmptyString == JsString(<<>>)

\* The hash length a call was asked for.
AskedLength(arg) == IF arg.given THEN arg.n ELSE DefaultHashLength

GenLength == AskedLength(gen.hashLength)

ValLength == AskedLength(val.hashLength)

Generated == gen.called /\ gen.outcome.kind = "return"

GenPrefix == JoinParts(gen.aliasParts.items)

Returned(value) == val.outcome.kind = "return" /\ val.outcome.value = value

MapKeys(map) == {map[i].key : i \in 1..Len(map)}

\* The alias is validated as generated, with the hash length of its generation.
ValidatedAsGenerated == val.called /\ val.origin = "generated" /\ ValLength = GenLength

\* The map is {secretKey: r} for the generating key and a string r.
OwnKeyMap ==
  /\ Len(val.keysRecipientMap) = 1
  /\ val.keysRecipientMap[1].key = gen.secretKey
  /\ val.keysRecipientMap[1].recipient.type = "string"

\* s holds "-", h hex digits and "@" somewhere.
HasSegment(s, h) ==
  \E i \in 1..Len(s) :
    /\ i + h + 1 <= Len(s)
    /\ s[i] = "-"
    /\ \A j \in 1..h : IsHexDigit(s[i + j])
    /\ s[i + h + 1] = "@"

HasLineTerminator(s) == \E j \in 1..Len(s) : IsLineTerminator(s[j])

\* The domain is not empty and holds no segment of h hex digits.
PlainDomain(h) == gen.domain # <<>> /\ ~HasSegment(gen.domain, h)

\* The hex of the first UTF-8 byte of a key.
FirstByteHex(key) == IF TextEncode(key) = <<>> THEN <<>> ELSE ByteToHex(TextEncode(key)[1])

\* The first n characters of the hex HMAC-SHA-256 of data under key.
HashStart(key, data, n) == Substring(_bufferToHex(_getHmacSignature(key, data)), 0, n)

\* Two keys give the same signature segment for data and hash length h.
SameSegment(k1, k2, data, h) ==
  /\ FirstByteHex(k1) = FirstByteHex(k2)
  /\ HashStart(k1, data, h - 2) = HashStart(k2, data, h - 2)

\* C1 as claimed: for every secretKey, non-empty aliasParts, domain, hashLength >= 2
\* and recipient r, validating the generated alias against {secretKey: r} with the
\* same hashLength returns r.
C1_RoundTripEveryInput ==
  (ValidatedAsGenerated /\ GenLength >= 2 /\ OwnKeyMap)
    => Returned(val.keysRecipientMap[1].recipient)

\* C1 as amended: round-trip validity for a non-empty secretKey, aliasParts whose
\* join is not empty and has no line terminator, a non-empty domain without line
\* terminator and without "-" + hashLength hex digits + "@", and 2 <= hashLength <= 66.
C1_RoundTrip ==
  (/\ ValidatedAsGenerated
   /\ GenLength >= 2 /\ GenLength <= 64 + 2
   /\ OwnKeyMap
   /\ gen.secretKey # <<>>
   /\ GenPrefix # <<>> /\ ~HasLineTerminator(GenPrefix)
   /\ PlainDomain(GenLength) /\ ~HasLineTerminator(gen.domain))
    => Returned(val.keysRecipientMap[1].recipient)

C1_Witness ==
  /\ ValidatedAsGenerated /\ OwnKeyMap
  /\ gen.secretKey = KeyE /\ gen.aliasParts = PartsAB /\ gen.domain = DomainD
  /\ GenLength = 3
  /\ Returned(R1)

\* C2 as claimed: a generated alias with one character of its signature segment
\* replaced by another hex digit validates to "" against {k: r}.
C2_TamperEveryAlias ==
  (val.called /\ val.origin = "tampered" /\ OwnKeyMap) => Returned(EmptyString)

\* C2 as amended: tamper rejection for an alias generated with a non-empty domain
\* that holds no "-" + hashLength hex digits + "@".
C2_TamperRejection ==
  (val.called /\ val.origin = "tampered" /\ OwnKeyMap /\ PlainDomain(GenLength))
    => Returned(EmptyString)

\* The one character of val.fullAlias that differs from the generated alias.
TamperedAt == CHOOSE i \in 1..Len(val.fullAlias.str) : val.fullAlias.str[i] # gen.outcome.value.str[i]

C2_Witness ==
  /\ val.called /\ val.origin = "tampered" /\ OwnKeyMap
  /\ gen.domain = DomainD /\ GenLength = 3
  /\ TamperedAt = SegmentStart + 3
  /\ Returned(EmptyString)

\* C3 as claimed: a generated alias validates to "" against every map that does not
\* contain the generating key.
C3_WrongKeyEveryMap ==
  (ValidatedAsGenerated /\ gen.secretKey \notin MapKeys(val.keysRecipientMap))
    => Returned(EmptyString)

\* C3 as amended: wrong-key rejection for an alias generated with a non-empty domain
\* that holds no "-" + hashLength hex digits + "@", against every map none of whose
\* keys shares with the generating key both the first UTF-8 byte and the first
\* hashLength-2 hex characters of the HMAC of the joined parts.
C3_WrongKeyRejection ==
  (/\ ValidatedAsGenerated
   /\ PlainDomain(GenLength)
   /\ \A k \in MapKeys(val.keysRecipientMap) : ~SameSegment(k, gen.secretKey, GenPrefix, GenLength))
    => Returned(EmptyString)

C3_Witness ==
  /\ ValidatedAsGenerated
  /\ gen.secretKey = KeyAB /\ gen.domain = DomainD /\ GenLength = 3
  /\ val.keysRecipientMap = <<Entry(KeyAC, R1)>>
  /\ val.outcome.hmacCalls = 1
  /\ Returned(EmptyString)

\* What generateEmailAlias gives for another key and the other arguments of gen.
AliasUnder(key) == generateEmailAlias(env, key, gen.aliasParts, gen.domain, gen.hashLength)

\* The map holds one key, and not the generating one.
OtherKeyMap == Len(val.keysRecipientMap) = 1 /\ val.keysRecipientMap[1].key # gen.secretKey

Validates == val.outcome.kind = "return" /\ Truthy(val.outcome.value)

\* C4 as claimed: two different keys and the same other arguments give two different
\* aliases, and an alias never validates against a map that holds only the other key.
C4_IsolationEveryKeyPair ==
  /\ Generated =>
       \A k \in SecretKeys \ {gen.secretKey} :
         AliasUnder(k).kind = "return" => AliasUnder(k).value # gen.outcome.value
  /\ (ValidatedAsGenerated /\ OtherKeyMap) => ~Validates

\* C4 as amended: key isolation for two keys that do not share both the first UTF-8
\* byte and the first hashLength-2 hex characters of the HMAC of the joined parts,
\* the validation part for a non-empty domain that holds no "-" + hashLength hex
\* digits + "@".
C4_KeyIsolation ==
  /\ Generated =>
       \A k \in SecretKeys \ {gen.secretKey} :
         (~SameSegment(k, gen.secretKey, GenPrefix, GenLength) /\ AliasUnder(k).kind = "return")
           => AliasUnder(k).value # gen.outcome.value
  /\ (/\ ValidatedAsGenerated /\ OtherKeyMap
      /\ PlainDomain(GenLength)
      /\ ~SameSegment(val.keysRecipientMap[1].key, gen.secretKey, GenPrefix, GenLength))
       => ~Validates

C4_Witness ==
  /\ ValidatedAsGenerated /\ OtherKeyMap
  /\ gen.secretKey = KeyAC /\ val.keysRecipientMap[1].key = KeyAB
  /\ gen.domain = DomainD /\ GenLength = 3
  /\ AliasUnder(KeyAB).kind = "return" /\ AliasUnder(KeyAB).value # gen.outcome.value
  /\ Returned(EmptyString)

\* Some key of the map signs the parsed prefix with the parsed signature segment.
Recognised ==
  LET match == MatchAlias(val.fullAlias.str, ValLength)
  IN  /\ val.fullAlias.type = "string"
      /\ match.matched
      /\ \E k \in MapKeys(val.keysRecipientMap) :
           /\ FirstByteHex(k) = Substring(match.hash, 0, 2)
           /\ HashStart(k, match.prefix, ValLength - 2) = Substring(match.hash, 2, Len(match.hash))

\* C5: validateEmailAlias never throws, whatever fullAlias is, and returns "" for
\* every fullAlias that is not a recognised alias of a key in the map.
C5_NeverThrows ==
  val.called =>
    /\ val.outcome.kind = "return"
    /\ ~Recognised => val.outcome.value = EmptyString

\* C6: when the HMAC primitive throws while a candidate key is checked, the error
\* is caught and validateEmailAlias returns a recipient or "".
C6_CandidateErrorsSwallowed ==
  (val.called /\ val.outcome.hmacCalls > 0 /\ ~getCryptoInstance(env).ok)
    => val.outcome.kind = "return"

\* C7 as claimed: an alias generated with hash length h1 >= 2 and validated with
\* another hash length h2 >= 2 against a map that holds the generating key gives "".
C7_MismatchEveryLength ==
  (/\ val.called /\ val.origin = "generated"
   /\ GenLength >= 2 /\ ValLength >= 2 /\ GenLength # ValLength
   /\ gen.secretKey \in MapKeys(val.keysRecipientMap))
    => Returned(EmptyString)

\* C7 as amended: length-mismatch rejection for 2 <= h1 <= 66, h2 >= 2, h1 # h2, when
\* neither the joined parts nor the domain holds "-" + h2 hex digits + "@".
C7_LengthMismatch ==
  (/\ val.called /\ val.origin = "generated"
   /\ GenLength >= 2 /\ GenLength <= 64 + 2 /\ ValLength >= 2 /\ GenLength # ValLength
   /\ gen.secretKey \in MapKeys(val.keysRecipientMap)
   /\ ~HasSegment(GenPrefix, ValLength) /\ ~HasSegment(gen.domain, ValLength))
    => Returned(EmptyString)

C7_Witness ==
  /\ val.called /\ val.origin = "generated"
  /\ GenLength = 3 /\ ~val.hashLength.given
  /\ gen.domain = DomainD
  /\ val.keysRecipientMap = <<Entry(gen.secretKey, R1)>>
  /\ Returned(EmptyString)

\* C8: generateEmailAlias rejects every hashLength smaller than 2 with an error.
C8_ShortHashLengthRejected ==
  (gen.called /\ GenLength < 2) => gen.outcome.kind = "throw"

\* The signature segment of the generated alias.
GenSegment == SubSeq(gen.outcome.value.str, SegmentStart + 1, SegmentStart + SegmentLength)

\* The alias is join(aliasParts, "-") + "-" + S + "@" + domain, S has hashLength
\* characters, the first two the hex of the first UTF-8 byte of the key, the others
\* the leading characters of the hex HMAC-SHA-256 of the joined parts.
AliasFormat ==
  /\ gen.outcome.value = JsString(GenPrefix \o <<"-">> \o GenSegment \o <<"@">> \o gen.domain)
  /\ Len(GenSegment) = GenLength
  /\ SubSeq(GenSegment, 1, 2) = FirstByteHex(gen.secretKey)
  /\ SubSeq(GenSegment, 3, GenLength)
       = SubSeq(_bufferToHex(_getHmacSignature(gen.secretKey, GenPrefix)), 1, GenLength - 2)

\* C9 as claimed: the alias format for every hashLength >= 2.
C9_FormatEveryLength == (Generated /\ GenLength >= 2) => AliasFormat

\* C9 as amended: the alias format for 2 <= hashLength <= 66.
C9_AliasFormat == (Generated /\ GenLength >= 2 /\ GenLength <= 64 + 2) => AliasFormat

C9_Witness ==
  /\ Generated /\ gen.secretKey = KeyE /\ gen.aliasParts = PartsAB /\ gen.domain = DomainD
  /\ GenLength = 64 + 2
  /\ Len(GenSegment) = 64 + 2

\* C10: with an empty or missing aliasParts, or a non-string element in it,
\* generateEmailAlias throws an input error and asks for no signature.
C10_InvalidAliasParts ==
  (/\ gen.called
   /\ \/ ~gen.aliasParts.given
      \/ gen.aliasParts.items = <<>>
      \/ \E i \in 1..Len(gen.aliasParts.items) : gen.aliasParts.items[i].type # "string")
    => /\ gen.outcome.kind = "throw"
       /\ gen.outcome.error \in {EmptyAliasParts, NonStringAliasParts}
       /\ gen.outcome.hmacCalls = 0

C10_Witness ==
  /\ gen.called /\ getCryptoInstance(env).ok
  /\ gen.aliasParts = Array(<<JsString(<<"p">>), JsNumber(42)>>)
  /\ gen.secretKey = KeyAB
  /\ gen.outcome.kind = "throw" /\ gen.outcome.error = NonStringAliasParts
  /\ gen.outcome.hmacCalls = 0

\* C11: two calls of generateEmailAlias with the same arguments end the same way,
\* whatever was called in between and whatever _cryptoInstance holds; so do two
\* calls of validateEmailAlias.
C11_Determinism ==
  (earlier.fn = call.fn /\ earlier.args = call.args) => earlier.outcome = call.outcome

C11_Witness ==
  /\ earlier.fn = "generateEmailAlias" /\ call.fn = "generateEmailAlias"
  /\ earlier.args = call.args
  /\ earlier.instance = NoInstance /\ call.instance # NoInstance
  /\ call.outcome.kind = "return"

\* The keys of the map whose first UTF-8 byte, in hex, is the key hint of the alias.
HintedKeys ==
  LET match == MatchAlias(val.fullAlias.str, ValLength)
  IN  IF val.fullAlias.type # "string" \/ ~match.matched THEN {}
      ELSE {k \in MapKeys(val.keysRecipientMap) : FirstByteHex(k) = Substring(match.hash, 0, 2)}

\* C12 as claimed: a call of validateEmailAlias computes at most one HMAC, for any
\* number of keys in the map.
C12_OneHmacEveryMap == val.called => val.outcome.hmacCalls <= 1

\* C12 as amended: a call of validateEmailAlias computes at most as many HMACs as the
\* map has keys whose first UTF-8 byte is the key hint embedded in the alias.
C12_HmacPerHintedKey == val.called => val.outcome.hmacCalls <= Cardinality(HintedKeys)

C12_Witness ==
  /\ val.called /\ val.origin = "generated"
  /\ val.keysRecipientMap = <<Entry(KeyAB, R1), Entry(KeyAC, R2)>>
  /\ gen.secretKey = KeyAC /\ GenLength = 3
  /\ val.outcome.hmacCalls = 2
  /\ Returned(R2)

UrlSafeCharacters ==
  {Base64Alphabet[i] : i \in 1..62} \cup {"-", "_"}

\* The length asked for is a positive integer.
PositiveLength == IsInteger(random.length) /\ random.length.num > 0

\* C13: for every positive integer length, generateSecureRandomString returns a
\* string of exactly length characters, all of them in [A-Za-z0-9_-], whatever the
\* random bytes are (in an environment with crypto and a base64 encoder).
C13_ExactLength ==
  (random.called /\ PositiveLength /\ getCrypto(env).ok /\ random.encoder # "none")
    => /\ random.outcome.kind = "return"
       /\ random.outcome.value.type = "string"
       /\ Len(random.outcome.value.str) = random.length.num
       /\ \A i \in 1..Len(random.outcome.value.str) :
            random.outcome.value.str[i] \in UrlSafeCharacters

\* C14: for a length that is zero, negative, fractional, NaN, infinite or not a
\* number, generateSecureRandomString throws "Length must be a positive integer."
\* before it looks for crypto or asks for random bytes.
C14_InvalidLength ==
  (random.called /\ ~(random.length.type = "number" /\ random.length.str = <<>> /\ random.length.num > 0))
    => /\ random.outcome.kind = "throw"
       /\ random.outcome.error = InvalidLength
       /\ random.outcome.probes = 0
       /\ random.outcome.randomBytes = 0

C14_Witness ==
  /\ random.called /\ ~getCrypto(env).ok
  /\ random.length = JsNonInteger(<<"2", ".", "5">>, 2)
  /\ random.outcome.kind = "throw" /\ random.outcome.error = InvalidLength
  /\ random.outcome.probes = 0

\* The source has a crypto with subtle and getRandomValues.
UsableSource(source) ==
  CASE source = "self" -> env.self = "usable"
    [] source = "globalThis" -> env.globalThis = "usable"
    [] source = "window" -> env.window = "usable"
    [] source = "node:crypto" -> env.node = "webcrypto"
    [] source = "crypto" -> env.node = "legacy"

\* C15: getCrypto looks at the sources in the order self, globalThis, window,
\* server-runtime module; it goes on to the next source only when the one before
\* is not usable; it returns the first usable source and throws the
\* crypto-unavailable error only when no source is usable.
C15_ResolutionOrder ==
  /\ resolve.tried = SubSeq(Sources, 1, Len(resolve.tried))
  /\ \A i \in 1..Len(resolve.tried) :
       (i < Len(resolve.tried) \/ ~resolve.done) => ~UsableSource(resolve.tried[i])
  /\ resolve.done =>
       /\ resolve.outcome = getCrypto(env)
       /\ resolve.outcome.ok =>
            /\ resolve.outcome.source = resolve.tried[Len(resolve.tried)]
            /\ UsableSource(resolve.outcome.source)
       /\ ~resolve.outcome.ok =>
            /\ resolve.outcome.error \in {CryptoUnavailable, WebCryptoUnavailable}
            /\ \A i \in 1..Len(Sources) : ~UsableSource(Sources[i])

C15_Witness ==
  /\ env.self = "noSubtle" /\ env.globalThis = "noGetRandomValues" /\ env.window = "usable"
  /\ env.node = "webcrypto"
  /\ resolve.done
  /\ resolve.tried = <<"self", "globalThis", "window">>
  /\ resolve.outcome = Found("window")

\* The runs of getCrypto the latest use made.
ProbesOfCall ==
  CASE call.fn \in {"generateEmailAlias", "validateEmailAlias"} -> call.outcome.hmacCalls
    [] call.fn = "generateSecureRandomString" -> call.outcome.probes
    [] call.fn \in {"crypto.subtle", "crypto.getRandomValues"} ->
         IF call.instance = NoInstance THEN 1 ELSE 0
    [] OTHER -> 0

\* C16: loading the module runs getCrypto not once and never fails; getCrypto has
\* not run before the first use of crypto.subtle, crypto.getRandomValues,
\* generateEmailAlias, validateEmailAlias or generateSecureRandomString; without
\* a usable crypto the use that runs getCrypto ends with the crypto error.
C16_LazyProbing ==
  /\ loaded # "failed"
  /\ (call = NoCall /\ frames = <<>>) => (probes = 0 /\ _cryptoInstance = NoInstance)
  /\ probes > 0 =>
       \/ call.fn \in {"crypto.subtle", "crypto.getRandomValues", "generateEmailAlias",
                        "validateEmailAlias", "generateSecureRandomString"}
       \/ (frames # <<>> /\ frames[1].fn \in {"generateEmailAlias", "validateEmailAlias"})
  /\ (ProbesOfCall > 0 /\ ~getCrypto(env).ok) =>
       /\ call.outcome.kind = "throw"
       /\ call.outcome.error = getCrypto(env).error

C16_Witness ==
  /\ ~getCrypto(env).ok
  /\ loaded = "yes"
  /\ call.fn = "generateSecureRandomString"
  /\ call.outcome.kind = "throw" /\ call.outcome.error = CryptoUnavailable
  /\ probes = 1

\* C17: generateEmailAlias gives the alias of each test vector for the vector's
\* secret key, alias parts, domain and hash length.
C17_TestVectors ==
  \A v \in TestVectors :
    (/\ call.fn = "generateEmailAlias"
     /\ call.args = <<v.secretKey, v.aliasParts, v.domain, v.hashLength>>
     /\ getCrypto(env).ok)
      => /\ call.outcome.kind = "return"
         /\ call.outcome.value = JsString(v.expectedAlias)

C17_Witness ==
  /\ call.fn = "generateEmailAlias"
  /\ call.args[1] = VectorMultiPart.secretKey
  /\ call.outcome.kind = "return"
  /\ call.outcome.value = JsString(VectorMultiPart.expectedAlias)
  /\ earlier.fn = "generateEmailAlias"
  /\ earlier.outcome.kind = "return"
  /\ earlier.outcome.value = JsString(VectorShortHash.expectedAlias)

\* EMAIL_OPTIONS parses to an object with a default address and a usable
\* ignore list.
ValidOptions ==
  /\ mail.EMAIL_OPTIONS.kind = "json"
  /\ mail.EMAIL_OPTIONS.json.shape = "object"
  /\ Truthy(mail.EMAIL_OPTIONS.json.default_email_address)
  /\ mail.EMAIL_OPTIONS.json.ignore_email_checks.kind \in {"missing", "array"}

\* message.from is an element of the ignore_email_checks array.
SenderListed ==
  /\ mail.EMAIL_OPTIONS.json.ignore_email_checks.kind = "array"
  /\ \E i \in 1..Len(mail.EMAIL_OPTIONS.json.ignore_email_checks.items) :
       mail.EMAIL_OPTIONS.json.ignore_email_checks.items[i] = mail.message.from

\* What a call that waits gives when its promises settle one after the other
\* in an environment that stays as it is.
RECURSIVE Finished(_, _)
Finished(environment, frame) ==
  IF frame.pc = "done" THEN frame.outcome
  ELSE IF frame.pc = "importKey" THEN Finished(environment, importKey(frame))
  ELSE Finished(environment, sign(environment, frame, _getHmacSignature(frame.cryptoKey, frame.data)))

\* What the validateEmailAlias of the run gives for message.to.
Validated ==
  Finished(env, importedValidate(env, mail.validator, mail.EMAIL_SECRET_MAPPING.json,
                                 mail.message.to))

YieldsRecipient == Validated.kind = "return" /\ Truthy(Validated.value)

ForwardedOnlyTo(destination) ==
  /\ mail.outcome.rejects = <<>>
  /\ mail.outcome.threw = ""
  /\ Len(mail.outcome.forwards) = 1
  /\ mail.outcome.forwards[1].destination = destination

\* C18: the handler calls setReject and does not forward every message whose
\* recipient address validateEmailAlias gives no recipient for.
C18_RejectsUnverified ==
  (mail.handled /\ mail.validator = "real" /\ mail.outcome.validateCalls = 1 /\ ~YieldsRecipient)
    => /\ Len(mail.outcome.rejects) = 1
       /\ mail.outcome.forwards = <<>>

\* C19: with valid EMAIL_OPTIONS, a sender that is not ignored and a parseable
\* EMAIL_SECRET_MAPPING the handler calls validateEmailAlias; when that gives "",
\* null or undefined or throws, the message is forwarded to default_email_address
\* and setReject is not called; when it gives a non-empty recipient, the message is
\* forwarded to that recipient.
C19_FallbackToDefault ==
  /\ (/\ mail.handled /\ Truthy(mail.message.to) /\ Truthy(mail.message.from)
      /\ ValidOptions /\ ~SenderListed /\ mail.EMAIL_SECRET_MAPPING.kind = "json")
       => mail.outcome.validateCalls = 1
  /\ (mail.handled /\ mail.outcome.validateCalls = 1) =>
       IF YieldsRecipient
         THEN ForwardedOnlyTo(Validated.value)
         ELSE ForwardedOnlyTo(mail.EMAIL_OPTIONS.json.default_email_address)

C19_Witness ==
  /\ mail.handled /\ ~getCrypto(env).ok
  /\ mail.validator = "real"
  /\ mail.message.to = VerifiedAlias
  /\ Validated.kind = "throw"
  /\ mail.outcome.validateCalls = 1
  /\ mail.outcome.hmacCalls = 1
  /\ ForwardedOnlyTo(DefaultAddress)

\* The ignored sender's message goes to the default address, with no call of
\* validateEmailAlias.
IgnoredToDefault ==
  /\ ForwardedOnlyTo(mail.EMAIL_OPTIONS.json.default_email_address)
  /\ mail.outcome.validateCalls = 0
  /\ mail.outcome.hmacCalls = 0

\* C20 as claimed: when message.from is listed in ignore_email_checks and
\* EMAIL_OPTIONS is valid with a default address, the message is forwarded to the
\* default address and validateEmailAlias is not called, whatever the recipient
\* address and EMAIL_SECRET_MAPPING are.
C20_IgnoredAnyRecipient ==
  (mail.handled /\ ValidOptions /\ SenderListed) => IgnoredToDefault

\* C20 amended: the same for every message whose recipient and sender addresses
\* are both non-empty; a message with an empty recipient or an empty sender address
\* is rejected for its missing field, also when the ignore list holds its sender.
C20_IgnoredSender ==
  (mail.handled /\ ValidOptions /\ SenderListed) =>
    IF Truthy(mail.message.to) /\ Truthy(mail.message.from) THEN IgnoredToDefault
    ELSE /\ mail.outcome.rejects = <<MissingFields>>
         /\ mail.outcome.forwards = <<>>
         /\ mail.outcome.validateCalls = 0

C20_Witness ==
  /\ mail.handled /\ ValidOptions /\ SenderListed
  /\ mail.message.to = VerifiedAlias
  /\ mail.EMAIL_SECRET_MAPPING = Parsed(MappingJson("object", <<Entry(KeyAB, R1)>>))
  /\ mail.validator = "real"
  /\ getCrypto(env).ok
  /\ IgnoredToDefault

\* C21: when the forward to the validated destination fails, the handler calls
\* forward a second time, with default_email_address, and does not throw.
C21_SecondForward ==
  (mail.handled /\ mail.outcome.validateCalls = 1 /\ YieldsRecipient /\ mail.forwardFails)
    => /\ Len(mail.outcome.forwards) = 2
       /\ mail.outcome.forwards[1].destination = Validated.value
       /\ mail.outcome.forwards[2].destination = mail.EMAIL_OPTIONS.json.default_email_address
       /\ mail.outcome.threw = ""

\* What the regular expression finds in the alias under validation.
ValMatch == MatchAlias(val.fullAlias.str, ValLength)

\* The i-th key of the map has the hint of the alias and signs the parsed prefix
\* with the hash the alias provides.
KeyMatches(i) ==
  /\ FirstByteHex(val.keysRecipientMap[i].key) = Substring(ValMatch.hash, 0, 2)
  /\ HashStart(val.keysRecipientMap[i].key, ValMatch.prefix, ValLength - 2)
       = Substring(ValMatch.hash, 2, Len(ValMatch.hash))

\* The alias parses and some key of the map matches it.
SomeKeyMatches ==
  /\ val.called /\ getCrypto(env).ok
  /\ val.fullAlias.type = "string" /\ ValMatch.matched
  /\ ValMatch.prefix # <<>> /\ ValMatch.hash # <<>>
  /\ \E i \in 1..Len(val.keysRecipientMap) : KeyMatches(i)

FirstMatch == CHOOSE i \in 1..Len(val.keysRecipientMap) : KeyMatches(i) /\ \A j \in 1..(i - 1) : ~KeyMatches(j)

\* The keys with the hint of the alias up to the i-th key of the map.
HintedUpTo(i) ==
  {j \in 1..i : FirstByteHex(val.keysRecipientMap[j].key) = Substring(ValMatch.hash, 0, 2)}

\* C22: validateEmailAlias returns the value of the first key, in the map's order,
\* whose truncated HMAC of the parsed prefix is the provided hash ("" when that
\* value is not a string), and signs with no candidate after that key; an alias
\* generated by a key of the map validates to that key's recipient when no earlier
\* key of the map gives the same segment.
C22_FirstMatchInOrder ==
  /\ SomeKeyMatches =>
       /\ Returned(IF val.keysRecipientMap[FirstMatch].recipient.type = "string"
                     THEN val.keysRecipientMap[FirstMatch].recipient
                     ELSE EmptyString)
       /\ val.outcome.hmacCalls = Cardinality(HintedUpTo(FirstMatch))
  /\ (/\ ValidatedAsGenerated /\ GenLength >= 2 /\ GenLength <= 64 + 2
      /\ gen.secretKey # <<>>
      /\ GenPrefix # <<>> /\ ~HasLineTerminator(GenPrefix)
      /\ PlainDomain(GenLength) /\ ~HasLineTerminator(gen.domain)
      /\ \E i \in 1..Len(val.keysRecipientMap) :
           /\ val.keysRecipientMap[i].key = gen.secretKey
           /\ val.keysRecipientMap[i].recipient.type = "string"
           /\ \A j \in 1..(i - 1) :
                ~SameSegment(val.keysRecipientMap[j].key, gen.secretKey, GenPrefix, GenLength))
       => Returned(Lookup(val.keysRecipientMap, gen.secretKey))

C22_Witness ==
  /\ ValidatedAsGenerated /\ GenLength = 3
  /\ gen.secretKey = KeyAB
  /\ val.keysRecipientMap = <<Entry(KeyAC, R2), Entry(KeyAB, R1)>>
  /\ SomeKeyMatches /\ FirstMatch = 2
  /\ val.outcome.hmacCalls = 2
  /\ Returned(R1)

\* "-", h lowercase hex digits and "@" stand at index i of the alias under
\* validation, and at least one character follows.
FitsAt(i) ==
  /\ i + ValLength + 2 <= Len(val.fullAlias.str)
  /\ val.fullAlias.str[i] = "-"
  /\ \A j \in 1..ValLength : val.fullAlias.str[i + j] \in {HexDigits[d] : d \in 1..16}
  /\ val.fullAlias.str[i + ValLength + 1] = "@"

Fits == {i \in 1..Len(val.fullAlias.str) : FitsAt(i)}

LastFit == CHOOSE i \in Fits : \A j \in Fits : j <= i

\* The index of the last "@" of the alias under validation, 0 when it has none.
LastAt ==
  IF \A i \in 1..Len(val.fullAlias.str) : val.fullAlias.str[i] # "@" THEN 0
  ELSE CHOOSE i \in 1..Len(val.fullAlias.str) :
         /\ val.fullAlias.str[i] = "@"
         /\ \A j \in (i + 1)..Len(val.fullAlias.str) : val.fullAlias.str[j] # "@"

\* A key of the map has the hint and the hash of the segment at the last fit.
KeyMatchesLastFit(i) ==
  /\ FirstByteHex(val.keysRecipientMap[i].key)
       = SubSeq(val.fullAlias.str, LastFit + 1, LastFit + 2)
  /\ HashStart(val.keysRecipientMap[i].key, SubSeq(val.fullAlias.str, 1, LastFit - 1),
               ValLength - 2)
       = SubSeq(val.fullAlias.str, LastFit + 3, LastFit + ValLength)

Accepted == val.outcome.kind = "return" /\ val.outcome.value # EmptyString

\* C23 as claimed: an alias whose last "@" is not immediately preceded by "-" and
\* hashLength lowercase hex digits is rejected with "".
C23_SegmentBeforeLastAt ==
  (/\ val.called /\ getCrypto(env).ok
   /\ val.fullAlias.type = "string" /\ ValLength >= 2
   /\ ~(LastAt - ValLength - 1 \in Fits))
    => Returned(EmptyString)

\* C23 as amended: the segment is at the last place where "-", hashLength lowercase
\* hex digits and "@" are followed by at least one character; an alias with no such
\* place, or with a line terminator, is rejected with "" and no HMAC; any other
\* alias is accepted only for a key that matches the segment at that place, and is
\* accepted when such a key exists and the matching keys map to non-empty strings.
C23_SegmentAtLastFit ==
  (val.called /\ getCrypto(env).ok /\ val.fullAlias.type = "string" /\ ValLength >= 2) =>
    IF Fits = {} \/ HasLineTerminator(val.fullAlias.str)
      THEN Returned(EmptyString) /\ val.outcome.hmacCalls = 0
    ELSE IF LastFit = 1 THEN Returned(EmptyString) /\ val.outcome.hmacCalls = 0
    ELSE /\ Accepted => \E i \in 1..Len(val.keysRecipientMap) : KeyMatchesLastFit(i)
         /\ (/\ \E i \in 1..Len(val.keysRecipientMap) : KeyMatchesLastFit(i)
             /\ \A i \in 1..Len(val.keysRecipientMap) :
                  KeyMatchesLastFit(i) =>
                    /\ val.keysRecipientMap[i].recipient.type = "string"
                    /\ val.keysRecipientMap[i].recipient # EmptyString)
              => Accepted

C23_Witness ==
  /\ val.called /\ getCrypto(env).ok
  /\ val.fullAlias = JsString(<<"p", "-", "6", "1", "@", "d", "@", "e">>)
  /\ ValLength = 2
  /\ LastFit = 2 /\ LastAt = 7
  /\ val.keysRecipientMap = <<Entry(KeyAB, R1)>>
  /\ Returned(R1)

\* The alias under validation is no string, is empty or does not parse into a
\* prefix, a segment and a domain.
Unparsed ==
  \/ val.fullAlias.type # "string"
  \/ val.fullAlias.str = <<>>
  \/ Fits = {}
  \/ HasLineTerminator(val.fullAlias.str)
  \/ LastFit = 1
  \/ ValLength = 0

\* The keys of the map whose first UTF-8 byte, in hex, is the first two characters
\* of the segment.
KeysWithHint ==
  {i \in 1..Len(val.keysRecipientMap) :
     FirstByteHex(val.keysRecipientMap[i].key)
       = Substring(SubSeq(val.fullAlias.str, LastFit + 1, LastFit + ValLength), 0, 2)}

\* C24: validateEmailAlias returns "" and asks for no crypto instance and no HMAC
\* when fullAlias is no string, empty or unparseable or when no key of the map has
\* the hint of the segment; it asks for an HMAC only when some key has that hint.
C24_NoCryptoWithoutCandidate ==
  val.called =>
    IF Unparsed \/ KeysWithHint = {}
      THEN Returned(EmptyString) /\ val.outcome.hmacCalls = 0
      ELSE /\ val.outcome.hmacCalls >= 1
           /\ val.outcome.hmacCalls <= Cardinality(KeysWithHint)
           /\ ~getCrypto(env).ok => val.outcome.kind = "throw"

C24_Witness ==
  /\ val.called /\ ~getCrypto(env).ok
  /\ val.fullAlias = JsString(<<"p", "-", "6", "1", "@", "d">>)
  /\ ValLength = 2
  /\ val.keysRecipientMap = <<Entry(KeyE, R1)>>
  /\ ~Unparsed /\ KeysWithHint = {}
  /\ Returned(EmptyString) /\ val.outcome.hmacCalls = 0

\* C25 as claimed: once the crypto capability is resolved, no later use runs
\* getCrypto again.
C25_ResolvedOnce ==
  [][_cryptoInstance # NoInstance => probes' = probes]_vars

\* C25 as amended: within one evaluation of the module, the crypto object keeps
\* the instance of its first successful resolution, and its members use it without
\* running getCrypto again; generateEmailAlias, validateEmailAlias and
\* generateSecureRandomString do not use what the crypto object keeps: a call that
\* reaches a signature, and a call that makes a random string, runs getCrypto once
\* more, also when the crypto object has resolved, and a call that runs getCrypto in
\* an environment with no usable crypto fails with the error of getCrypto.
C25_OnlyCryptoObjectCaches ==
  [][/\ (_cryptoInstance # NoInstance /\ loaded' = "yes") =>
          /\ _cryptoInstance' = _cryptoInstance
          /\ (call'.fn \in {"crypto.subtle", "crypto.getRandomValues"} /\ frames' = frames) =>
               (probes' = probes /\ call'.outcome.kind = "return")
     /\ (frames' # frames /\ frames' # <<>> /\ frames'[1].pc = "importKey") =>
          probes' = probes + 1
     /\ (/\ call' # call
         /\ call'.fn = "generateSecureRandomString"
         /\ call'.outcome.kind = "return") =>
          probes' = probes + 1
     /\ (/\ probes' > probes
         /\ call'.fn \in {"generateEmailAlias", "validateEmailAlias",
                          "generateSecureRandomString"}
         /\ ~getCrypto(env).ok)
          => (call'.outcome.kind = "throw" /\ call'.outcome.error = getCrypto(env).error)
    ]_vars

\* The crypto object has resolved, and a call of generateEmailAlias after that has
\* run getCrypto again.
C25_Witness ==
  /\ _cryptoInstance = "self"
  /\ getCrypto(env).ok
  /\ call.fn = "generateEmailAlias"
  /\ call.instance = "self"
  /\ call.outcome.kind = "return"
  /\ probes = 2

\* What a call returns or throws when it runs alone.
Alone(frame) ==
  IF frame.fn = "generateEmailAlias"
    THEN generateEmailAlias(env, frame.secretKey, frame.aliasParts, frame.domain,
                            frame.hashLengthArg)
  ELSE validateEmailAlias(env, frame.keysRecipientMap, frame.fullAlias, frame.hashLengthArg)

\* C26: however the steps of the calls under way interleave at the awaits on
\* importKey and sign, a call that has ended has returned or thrown what it returns or
\* throws alone, and a step of one call changes nothing of another call and nothing
\* of the module.
C26_ConcurrentCallsIndependent ==
  [][/\ \A i \in 1..MaxCalls :
          frames'[i].pc = "done" => frames'[i].outcome = Alone(frames[i])
     /\ \A i \in 1..MaxCalls :
          frames'[i] # frames[i] =>
            /\ \A j \in (1..MaxCalls) \ {i} : frames'[j] = frames[j]
            /\ _cryptoInstance' = _cryptoInstance
    ]_vars

C26_Witness ==
  /\ frames # <<>>
  /\ frames[1].fn = "generateEmailAlias" /\ frames[1].secretKey = KeyAB
  /\ frames[1].pc = "sign"
  /\ frames[2].fn = "validateEmailAlias" /\ frames[2].pc = "done"
  /\ frames[2].outcome.value = R2
  /\ frames[2].outcome.hmacCalls = 2
  /\ _cryptoInstance # NoInstance

\* C27: a run of the email handler that returns has called setReject exactly once
\* and forward not at all, or forward exactly once and setReject not at all.
C27_OneTerminalAction ==
  (mail.handled /\ mail.outcome.threw = "")
    => \/ Len(mail.outcome.rejects) = 1 /\ Len(mail.outcome.forwards) = 0
       \/ Len(mail.outcome.rejects) = 0 /\ Len(mail.outcome.forwards) = 1

C27_Witness ==
  /\ mail.handled /\ mail.outcome.threw = ""
  /\ mail.forwardFails
  /\ mail.validator = "throws"
  /\ mail.outcome.validateCalls = 1
  /\ mail.outcome.rejects = <<>>
  /\ Len(mail.outcome.forwards) = 1
  /\ mail.outcome.forwards[1].failed

\* C28: the email handler does not throw, whatever the message, EMAIL_OPTIONS,
\* EMAIL_SECRET_MAPPING, the validation and forward do.
C28_NeverThrows ==
  mail.handled => mail.outcome.threw = ""

\* The domain of the alias under validation, when the alias is the generated one
\* under some domain.
ValDomain == SubSeq(val.fullAlias.str, Len(Stem) + 1, Len(val.fullAlias.str))

\* A generated alias that was validated to a recipient is validated again under
\* another domain.
Redomained ==
  /\ val.origin = "generated" /\ val'.origin = "redomained"
  /\ val.outcome.kind = "return"
  /\ val.outcome.value.type = "string" /\ val.outcome.value # EmptyString

\* C29 as claimed: an alias that validates to a recipient validates to the same
\* recipient under every other domain that is not empty and holds no segment.
C29_AnyOtherDomain ==
  [][(/\ Redomained
      /\ ValDomain' # <<>>
      /\ ~HasSegment(ValDomain', HashLengthOf(val.hashLength)))
       => val'.outcome = val.outcome]_vars

\* C29 as amended: an alias that validates to a recipient validates to the same
\* recipient, with the same signatures computed, under every other domain that is
\* not empty and holds no segment and no line terminator; under a domain with a line
\* terminator it validates to "" with no signature computed.
C29_DomainNotSigned ==
  [][(/\ Redomained
      /\ ValDomain' # <<>>
      /\ ~HasSegment(ValDomain', HashLengthOf(val.hashLength)))
       => IF HasLineTerminator(ValDomain')
            THEN val'.outcome = Return(EmptyString, 0)
          ELSE val'.outcome = val.outcome]_vars

C29_Witness ==
  /\ val.called /\ val.origin = "redomained"
  /\ ValDomain = DomainWithAt
  /\ gen.secretKey = KeyE
  /\ val.hashLength = Given(MaxShortHash)
  /\ Returned(R2)
  /\ val.outcome.hmacCalls = 1

\* The keys of the map whose first UTF-8 byte, in hex, is the two characters after
\* index i of the alias under validation.
KeysWithHintAt(i) ==
  {j \in 1..Len(val.keysRecipientMap) :
     FirstByteHex(val.keysRecipientMap[j].key) = SubSeq(val.fullAlias.str, i + 1, i + 2)}

FirstWithHintAt(i) == CHOOSE j \in KeysWithHintAt(i) : \A k \in KeysWithHintAt(i) : j <= k

\* The recipient the map gives for its j-th key: its value, "" when the value is no
\* string.
RecipientOf(j) ==
  IF val.keysRecipientMap[j].recipient.type = "string" THEN val.keysRecipientMap[j].recipient
  ELSE EmptyString

\* The alias generated with hash length 2 holds the key's hint and nothing else of
\* the key.
HintOnlyAlias ==
  (Generated /\ GenLength = 2) =>
    gen.outcome.value
      = JsString(GenPrefix \o <<"-">> \o FirstByteHex(gen.secretKey) \o <<"@">> \o gen.domain)

\* C30 as claimed: with hashLength 2, every alias that reads prefix-hint@domain with
\* a non-empty prefix and domain and the hint of some key of the map validates to
\* the recipient the map gives for a key with that hint; and the generated alias depends on
\* the key by its first byte only.
C30_AnyAliasWithHint ==
  /\ (val.called /\ getCrypto(env).ok /\ val.fullAlias.type = "string" /\ ValLength = 2) =>
       \A i \in 2..Len(val.fullAlias.str) :
         (FitsAt(i) /\ KeysWithHintAt(i) # {}) =>
           \E j \in KeysWithHintAt(i) : Returned(RecipientOf(j))
  /\ HintOnlyAlias

\* C30 as amended: with hashLength 2, an alias with no line terminator whose last
\* place where "-", two hex digits and "@" are followed by a character has a
\* non-empty prefix validates, with one HMAC computed, to the recipient the map gives
\* for its first key with the hint at that place, and to "" when no key has the hint;
\* and the generated alias depends on the key by its first byte
\* only.
C30_HintCarriesAll ==
  /\ (/\ val.called /\ getCrypto(env).ok /\ val.fullAlias.type = "string" /\ ValLength = 2
      /\ ~HasLineTerminator(val.fullAlias.str) /\ Fits # {} /\ LastFit > 1) =>
       IF KeysWithHintAt(LastFit) = {} THEN Returned(EmptyString)
       ELSE /\ Returned(RecipientOf(FirstWithHintAt(LastFit)))
            /\ val.outcome.hmacCalls = 1
  /\ HintOnlyAlias

C30_Witness ==
  /\ Generated /\ GenLength = 2 /\ gen.secretKey = KeyAC
  /\ gen.aliasParts = PartsAB
  /\ gen.outcome.value = JsString(<<"a", "-", "b", "-", "6", "1", "@", "d">>)
  /\ val.called /\ val.origin = "generated" /\ ValLength = 2 /\ getCrypto(env).ok
  /\ val.keysRecipientMap = <<Entry(KeyAB, R1)>>
  /\ Fits = {4}
  /\ KeysWithHintAt(4) = {1}
  /\ Returned(R1)
  /\ val.outcome.hmacCalls = 1

====
